---- MODULE Spec2Model ----
(***************************************************************************)
(* Model of the good-math vertical calculation tutor:                      *)
(*   - the column decomposition computed by VerticalCalculation's useMemo  *)
(*     (src/src/components/animations/Celebration.tsx, getDigits/padDigits *)
(*     from src/src/utils/mathGenerator.ts),                               *)
(*   - the narration texts and the speech manager (src/src/utils/speech.ts)*)
(*   - the animation effect (runAnimation / speakAndWait) and the reset    *)
(*     effect of VerticalCalculation,                                      *)
(*   - the problem generator (generateProblem, generateQuiz of             *)
(*     src/src/utils/mathGenerator.ts).                                    *)
(* Times are in milliseconds.  Sequences are 1-based: column i of the      *)
(* source (0-based) is element i+1 of the modelled arrays.                 *)
(***************************************************************************)
EXTENDS Integers, Sequences, FiniteSets, TLC

VARIABLES
    problem,        \* props.problem of VerticalCalculation
    memo,           \* result of the useMemo (columns, maxDigits, ...), or NoMemo
    mounted,        \* is the VerticalCalculation component mounted
    animationSpeed, \* props.animationSpeed
    speechEnabled,  \* settings store: speechEnabled
    isCorrect,      \* props.isCorrect
    currentColumn,  \* useState currentColumn
    phase,          \* useState phase
    isDone,         \* useState isDone
    writtenDigits,  \* useState writtenDigits
    runs,           \* every runAnimation() invocation so far, oldest first
    synth,          \* the synthesizer behind speechManager.synth: "none"
                    \* (synth === null), "ok", or "silent" (it accepts
                    \* utterances and delivers neither end nor error)
    mgrEnabled,     \* speechManager.enabled
    gen,            \* the call of generateProblem / generateQuiz in progress:
                    \* its arguments, locals and position
    quiz,           \* the state of the quiz store (useQuizStore)
    questionsPerQuiz, \* settings store: questionsPerQuiz
    page,           \* the QuizPage component: its useState values and its
                    \* pending timers, those of unmounted instances included
    pad             \* a NumberPad: its props and what it forwarded

\* The variables of the settings field, the quiz page and the number pad.
appVars == <<questionsPerQuiz, page, pad>>

vars == <<problem, memo, mounted, animationSpeed, speechEnabled, isCorrect,
          currentColumn, phase, isDone, writtenDigits, runs, synth,
          mgrEnabled, gen, quiz, appVars>>

seqVars == <<mounted, animationSpeed, speechEnabled, isCorrect, currentColumn,
             phase, isDone, writtenDigits, runs, synth, mgrEnabled, gen, quiz, appVars>>

\* The variables of the VerticalCalculation component and the speech manager.
tutorVars == <<problem, memo, mounted, animationSpeed, speechEnabled,
               isCorrect, currentColumn, phase, isDone, writtenDigits, runs,
               synth, mgrEnabled>>

(***************************************************************************)
(* Bounds of the model.                                                    *)
(***************************************************************************)
MaxOperand == 30    \* operands 0..MaxOperand are decomposed exhaustively
MaxRuns == 2        \* runAnimation() invocations per behaviour
MaxNumber == 2      \* maxNumber 0..MaxNumber besides the levels' own
MaxCount == 4       \* generateQuiz's count ranges over 0..MaxCount
MaxQuestions == 3   \* startQuiz's questionCount ranges over 0..MaxQuestions
MaxAnswers == 2     \* submitAnswer is called at most MaxAnswers times a quiz
MaxIndex == 6       \* nextProblem is called in unlimited mode while
                    \* currentIndex < MaxIndex

\* Operands around the digit-count boundaries, added to 0..MaxOperand.
EdgeOperands == {99, 100, 101, 109, 110, 199, 900, 999, 1000}

Operands == (0..MaxOperand) \cup EdgeOperands

Max2(a, b) == IF a >= b THEN a ELSE b
Max3(a, b, c) == Max2(a, Max2(b, c))

(***************************************************************************)
(* mathGenerator.ts                                                        *)
(***************************************************************************)
\* checkRequiresCarry: ones-place indicator.
\* Mutant of checkRequiresCarry: the whole operands are compared, not their
\* ones digits.
checkRequiresCarryWhole(a, b, operation) ==
    IF operation = "addition"
    THEN a + b >= 10
    ELSE a < b

checkRequiresCarry(a, b, operation) ==
    IF operation = "addition"
    THEN (a % 10) + (b % 10) >= 10
    ELSE (a % 10) < (b % 10)

\* generateAdditionProblem's record for drawn operands (id given by the caller).
AdditionProblem(id, operand1, operand2) ==
    [id |-> id, operand1 |-> operand1, operand2 |-> operand2,
     operation |-> "addition", answer |-> operand1 + operand2,
     requiresCarry |-> checkRequiresCarry(operand1, operand2, "addition")]

\* generateSubtractionProblem's record for drawn operands.
SubtractionProblem(id, operand1, operand2) ==
    [id |-> id, operand1 |-> operand1, operand2 |-> operand2,
     operation |-> "subtraction", answer |-> operand1 - operand2,
     requiresCarry |-> checkRequiresCarry(operand1, operand2, "subtraction")]

\* getDigits: the digits of num, ones first; 0 has the one digit 0.
RECURSIVE DigitsOf(_)
DigitsOf(n) == IF n = 0 THEN <<>> ELSE <<n % 10>> \o DigitsOf(n \div 10)

getDigits(num) ==
    IF num = 0 THEN <<0>> ELSE DigitsOf(IF num < 0 THEN -num ELSE num)

\* The padding sentinel of padDigits (null in the source).
null == -1

\* The values of a boolean that may be missing: the settings store has no
\* speechEnabled field until one is set or read back from storage
\* (DEFAULT_SETTINGS has none), and reading it gives undefined; the speech
\* manager's enabled flag holds whatever setEnabled was given.
undefined == "undefined"

OptionalBoolean == {undefined, "false", "true"}

\* A boolean as a value of the store.
Stored(b) == IF b THEN "true" ELSE "false"

\* JavaScript's truthiness of such a value (if (v), !v, v && ...).
Truthy(v) == v = "true"

\* padDigits: digits extended with null up to length.
padDigits(digits, length) ==
    [i \in 1..Max2(Len(digits), length) |->
        IF i <= Len(digits) THEN digits[i] ELSE null]

\* Mutant of OrZero: the padding sentinel is used as it is.
OrZeroKeepsNull(d) == d

\* d ?? 0
OrZero(d) == IF d = null THEN 0 ELSE d

\* LEVEL_CONFIGS[level]: maxNumber and operations of each quiz level.
QuizLevels == {"add-sub-10", "add-sub-20", "add-sub-100", "add-sub-1000",
               "mixed-10", "mixed-20", "mixed-100", "mixed-1000"}

LEVEL_CONFIGS(level) ==
    [maxNumber |-> CASE level \in {"add-sub-10", "mixed-10"} -> 10
                     [] level \in {"add-sub-20", "mixed-20"} -> 20
                     [] level \in {"add-sub-100", "mixed-100"} -> 100
                     [] level \in {"add-sub-1000", "mixed-1000"} -> 1000,
     operations |-> <<"addition", "subtraction">>]

\* getRandomInt(min, max): Math.floor(Math.random() * (max - min + 1)) + min
\* with Math.random() in [0, 1) -- the values it can return.
getRandomInt(min, max) == min..max

\* getRandomOperation(operations): the operations it can return.
getRandomOperation(operations) ==
    {operations[i] : i \in 1..Len(operations)}

\* The id of a generated problem.  generateId() builds an opaque string from
\* the clock and Math.random(); no code of the generator reads it.
GeneratedId == 0

\* Mutant of generateAdditionProblem: operand2 is drawn from 0..maxNumber.
generateAdditionProblemUnbounded(maxNumber) ==
    {AdditionProblem(GeneratedId, operand1, operand2) :
        operand1 \in getRandomInt(0, maxNumber),
        operand2 \in getRandomInt(0, maxNumber)}

\* generateAdditionProblem(maxNumber): the problems it can return.
generateAdditionProblem(maxNumber) ==
    UNION {{AdditionProblem(GeneratedId, operand1, operand2) :
              operand2 \in getRandomInt(0, maxNumber - operand1)} :
           operand1 \in getRandomInt(0, maxNumber)}

\* generateSubtractionProblem(maxNumber): the problems it can return.
generateSubtractionProblem(maxNumber) ==
    UNION {{SubtractionProblem(GeneratedId, operand1, operand2) :
              operand2 \in getRandomInt(0, operand1)} :
           operand1 \in getRandomInt(0, maxNumber)}

\* generateProblem for a level whose configuration is config.
generateProblemFor(config) ==
    UNION {IF operation = "addition"
           THEN generateAdditionProblem(config.maxNumber)
           ELSE generateSubtractionProblem(config.maxNumber) :
           operation \in getRandomOperation(config.operations)}

\* generateProblem(level): the problems it can return.
generateProblem(level) == generateProblemFor(LEVEL_CONFIGS(level))

\* isDuplicateProblem(a, b)
isDuplicateProblem(a, b) ==
    /\ a.operand1 = b.operand1
    /\ a.operand2 = b.operand2
    /\ a.operation = b.operation

\* Mutant of RecentProblems: only the last accepted problem is compared.
RecentProblemsLastOnly(problems) ==
    SubSeq(problems, Max2(1, Len(problems)), Len(problems))

\* problems.slice(-3)
RecentProblems(problems) ==
    SubSeq(problems, Max2(1, Len(problems) - 2), Len(problems))

\* The body of generateQuiz's first loop decides to push newProblem: it is
\* no duplicate of the last problem nor of any of the recent problems.
Accepts(problems, newProblem) ==
    /\ \/ problems = <<>>
       \/ ~isDuplicateProblem(newProblem, problems[Len(problems)])
    /\ LET recentProblems == RecentProblems(problems)
       IN ~\E i \in 1..Len(recentProblems) :
             isDuplicateProblem(recentProblems[i], newProblem)

\* maxAttempts = count * 10
MaxAttempts(count) == count * 10

\* Mutant of FillNeeded: the second loop is never entered.
FillSkipped(g) == FALSE

\* The condition of generateQuiz's second loop: problems.length < count
FillNeeded(g) == Len(g.problems) < g.count

\* No generator call in progress.
GenIdle == [pc |-> "idle", config |-> [maxNumber |-> 0, operations |-> <<>>],
            count |-> 0, problems |-> <<>>, attempts |-> 0, checked |-> 0,
            draws |-> {}]

(***************************************************************************)
(* Celebration.tsx: VerticalCalculation's useMemo (column decomposition)   *)
(***************************************************************************)
PLACE_NAMES == <<"ones", "tens", "hundreds", "thousands">>

\* PLACE_NAMES[i] || `place ${i}` for the 0-based place index i.
PlaceName(i) ==
    IF i + 1 <= Len(PLACE_NAMES) THEN PLACE_NAMES[i + 1]
    ELSE "place " \o ToString(i)

\* Mutant of MaxDigits: the width is the answer's digit count alone.
MaxDigitsAnswerOnly(p) == Len(getDigits(p.answer))

\* Mutant of MaxDigits: the answer's digit count is left out of the width.
MaxDigitsOperandsOnly(p) ==
    Max2(Len(getDigits(p.operand1)), Len(getDigits(p.operand2)))

\* max = Math.max(op1.length, op2.length, result.length)
MaxDigits(p) ==
    Max3(Len(getDigits(p.operand1)), Len(getDigits(p.operand2)),
         Len(getDigits(p.answer)))

\* Mutant of AdditionColumn: the incoming carry is recorded but not added.
AdditionColumnCarryNotAdded(paddedOp1, paddedOp2, i, carryIn) ==
    LET d1 == OrZero(paddedOp1[i + 1])
        d2 == OrZero(paddedOp2[i + 1])
        sum == d1 + d2
    IN [placeIndex |-> i, placeName |-> PlaceName(i), op1Digit |-> d1,
        op2Digit |-> d2, carryIn |-> carryIn, sum |-> sum,
        resultDigit |-> sum % 10, carryOut |-> sum \div 10]

\* One iteration of the addition loop for 0-based place i.
AdditionColumn(paddedOp1, paddedOp2, i, carryIn) ==
    LET d1 == OrZero(paddedOp1[i + 1])
        d2 == OrZero(paddedOp2[i + 1])
        sum == d1 + d2 + carryIn
    IN [placeIndex |-> i, placeName |-> PlaceName(i), op1Digit |-> d1,
        op2Digit |-> d2, carryIn |-> carryIn, sum |-> sum,
        resultDigit |-> sum % 10, carryOut |-> sum \div 10]

\* The addition loop from place i on, carryIn being the carry into place i.
RECURSIVE AdditionPass(_, _, _, _, _)
AdditionPass(paddedOp1, paddedOp2, max, i, carryIn) ==
    IF i >= max THEN <<>>
    ELSE LET c == AdditionColumn(paddedOp1, paddedOp2, i, carryIn)
         IN <<c>> \o AdditionPass(paddedOp1, paddedOp2, max, i + 1, c.carryOut)

\* Mutant of NextBorrow: the borrow is never propagated to the next place.
NextBorrowDropped(needsBorrow) == 0

\* borrowIn = needsBorrow ? 1 : 0
NextBorrow(needsBorrow) == IF needsBorrow THEN 1 ELSE 0

\* Mutant of SubtractionColumn: a borrow is also taken when the digits are
\* equal (d1 <= d2).
SubtractionColumnBorrowOnEqual(paddedOp1, paddedOp2, i, borrowIn) ==
    LET d1 == OrZero(paddedOp1[i + 1]) - borrowIn
        d2 == OrZero(paddedOp2[i + 1])
        needsBorrow == d1 <= d2
        borrowedValue == IF needsBorrow THEN d1 + 10 ELSE d1
    IN [placeIndex |-> i, placeName |-> PlaceName(i),
        op1Digit |-> OrZero(paddedOp1[i + 1]), op2Digit |-> d2,
        borrowIn |-> borrowIn, needsBorrow |-> needsBorrow,
        borrowedValue |-> borrowedValue, resultDigit |-> borrowedValue - d2]

\* One iteration of the subtraction loop for 0-based place i.
SubtractionColumn(paddedOp1, paddedOp2, i, borrowIn) ==
    LET d1 == OrZero(paddedOp1[i + 1]) - borrowIn
        d2 == OrZero(paddedOp2[i + 1])
        needsBorrow == d1 < d2
        borrowedValue == IF needsBorrow THEN d1 + 10 ELSE d1
    IN [placeIndex |-> i, placeName |-> PlaceName(i),
        op1Digit |-> OrZero(paddedOp1[i + 1]), op2Digit |-> d2,
        borrowIn |-> borrowIn, needsBorrow |-> needsBorrow,
        borrowedValue |-> borrowedValue, resultDigit |-> borrowedValue - d2]

\* The subtraction loop from place i on.
RECURSIVE SubtractionPass(_, _, _, _, _)
SubtractionPass(paddedOp1, paddedOp2, max, i, borrowIn) ==
    IF i >= max THEN <<>>
    ELSE LET c == SubtractionColumn(paddedOp1, paddedOp2, i, borrowIn)
         IN <<c>> \o SubtractionPass(paddedOp1, paddedOp2, max, i + 1,
                                     NextBorrow(c.needsBorrow))

\* The value of the useMemo for problem p.
Decompose(p) ==
    LET max == MaxDigits(p)
        paddedOp1 == padDigits(getDigits(p.operand1), max)
        paddedOp2 == padDigits(getDigits(p.operand2), max)
        paddedResult == padDigits(getDigits(p.answer), max)
    IN [columns |-> IF p.operation = "addition"
                    THEN AdditionPass(paddedOp1, paddedOp2, max, 0, 0)
                    ELSE SubtractionPass(paddedOp1, paddedOp2, max, 0, 0),
        maxDigits |-> max, op1Digits |-> paddedOp1, op2Digits |-> paddedOp2,
        resultDigits |-> paddedResult]

\* The memo before the first render.
NoMemo == [columns |-> <<>>, maxDigits |-> 0, op1Digits |-> <<>>,
           op2Digits |-> <<>>, resultDigits |-> <<>>]

(***************************************************************************)
(* speech.ts: narration texts                                              *)
(***************************************************************************)
S(n) == ToString(n)

\* getAdditionSpeechText(phase, placeName, op1Digit, op2Digit, carryIn, sum,
\* resultDigit, carryOut), the arguments taken from column c.
getAdditionSpeechText(ph, c) ==
    CASE ph = "highlight" ->
           IF c.carryIn > 0
           THEN "Look at the " \o c.placeName \o " place. " \o S(c.op1Digit)
                \o " and " \o S(c.op2Digit) \o ", plus " \o S(c.carryIn)
                \o " carried over."
           ELSE "Look at the " \o c.placeName \o " place. " \o S(c.op1Digit)
                \o " and " \o S(c.op2Digit) \o "."
      [] ph = "calc" ->
           LET text == IF c.carryIn > 0
                       THEN S(c.op1Digit) \o " plus " \o S(c.op2Digit)
                            \o " plus " \o S(c.carryIn) \o " equals "
                            \o S(c.sum) \o "."
                       ELSE S(c.op1Digit) \o " plus " \o S(c.op2Digit)
                            \o " equals " \o S(c.sum) \o "."
           IN IF c.carryOut > 0
              THEN text \o " " \o S(c.sum) \o " is more than 9, so we carry!"
              ELSE text
      [] ph = "carry" ->
           "Write " \o S(c.resultDigit) \o " in the " \o c.placeName
           \o " place, and carry " \o S(c.carryOut) \o " to the next place."
      [] ph = "write" ->
           IF c.carryOut = 0
           THEN "Write " \o S(c.resultDigit) \o " in the " \o c.placeName
                \o " place."
           ELSE ""
      [] OTHER -> ""

\* getSubtractionSpeechText(phase, placeName, op1Digit, op2Digit, borrowIn,
\* needsBorrow, borrowedValue, resultDigit), the arguments taken from column c.
getSubtractionSpeechText(ph, c) ==
    LET effectiveOp1 == c.op1Digit - c.borrowIn
    IN CASE ph = "highlight" ->
              IF c.borrowIn > 0
              THEN "Look at the " \o c.placeName \o " place. " \o S(c.op1Digit)
                   \o " minus " \o S(c.borrowIn) \o " gives us "
                   \o S(effectiveOp1) \o ", and we subtract " \o S(c.op2Digit)
                   \o "."
              ELSE "Look at the " \o c.placeName \o " place. " \o S(c.op1Digit)
                   \o " minus " \o S(c.op2Digit) \o "."
         [] ph = "calc" ->
              IF c.needsBorrow
              THEN S(effectiveOp1) \o " is less than " \o S(c.op2Digit)
                   \o ", so we need to borrow! Borrow 10 to get "
                   \o S(c.borrowedValue) \o "."
              ELSE S(effectiveOp1) \o " minus " \o S(c.op2Digit) \o " equals "
                   \o S(c.resultDigit) \o "."
         [] ph = "carry" ->
              S(c.borrowedValue) \o " minus " \o S(c.op2Digit) \o " equals "
              \o S(c.resultDigit) \o "."
         [] ph = "write" ->
              "Write " \o S(c.resultDigit) \o " in the " \o c.placeName
              \o " place."
         [] OTHER -> ""

\* getCompletionSpeech(isCorrect, answer): the texts Math.random() can select.
getCompletionSpeech(correct, answer) ==
    IF correct
    THEN {"Correct! Great job!", "Yes! You got it right!", "Excellent work!",
          "Perfect! Well done!"}
    ELSE {"The answer is " \o S(answer) \o ". Keep trying!"}

\* Mutant of PhaseText: the write text of an addition does not depend on the
\* carry.
PhaseTextWriteAlways(operation, ph, c) ==
    IF operation = "addition"
    THEN IF ph = "write"
         THEN "Write " \o S(c.resultDigit) \o " in the " \o c.placeName
              \o " place."
         ELSE getAdditionSpeechText(ph, c)
    ELSE getSubtractionSpeechText(ph, c)

\* The text runAnimation computes for phase ph of column c (lines 475-487).
PhaseText(operation, ph, c) ==
    IF operation = "addition" THEN getAdditionSpeechText(ph, c)
    ELSE getSubtractionSpeechText(ph, c)

(***************************************************************************)
(* Timing: ANIMATION_SPEEDS, getDuration, the phase factors of runAnimation *)
(***************************************************************************)
Speeds == {"slow", "normal", "fast"}

\* ANIMATION_SPEEDS[speed], in tenths (slow 1.5, normal 1, fast 0.5).
ANIMATION_SPEEDS(speed) ==
    CASE speed = "slow" -> 15 [] speed = "normal" -> 10 [] speed = "fast" -> 5

\* getDuration(base, speed) = base * ANIMATION_SPEEDS[speed]
getDuration(base, speed) == (base * ANIMATION_SPEEDS(speed)) \div 10

\* baseTiming = getDuration(600, animationSpeed)
BaseTiming(speed) == getDuration(600, speed)

\* Mutant of MinWait: every phase dwells baseTiming, the phase factors are
\* left out.
MinWaitUnscaled(stage, speed) == BaseTiming(speed)

\* The minWait runAnimation passes for each stage: baseTiming times 1, 1.5,
\* 1.2, 0.8; the initial delay and the completion announcement use baseTiming.
MinWait(stage, speed) ==
    CASE stage = "highlight" -> BaseTiming(speed)
      [] stage = "calc" -> (BaseTiming(speed) * 15) \div 10
      [] stage = "carry" -> (BaseTiming(speed) * 12) \div 10
      [] stage = "write" -> (BaseTiming(speed) * 8) \div 10
      [] OTHER -> BaseTiming(speed)

\* speakAndWait's speech rate, in tenths (slow 0.9, fast 1.3, normal 1.0).
SpeechRate(speed) ==
    CASE speed = "slow" -> 9 [] speed = "fast" -> 13 [] OTHER -> 10

\* Mutant of WaitAfterSpeech: the elapsed speech time is not subtracted.
WaitAfterSpeechNotSubtracted(minWait, speechDuration) ==
    Max2(minWait, speechDuration + 200)

\* speakAndWait after the speech promise resolved with speechDuration (an
\* integer: a difference of Date.now() values): the delay of the setTimeout,
\* waitTime - speechDuration with waitTime = max(minWait, speechDuration+200).
WaitAfterSpeech(minWait, speechDuration) ==
    Max2(minWait, speechDuration + 200) - speechDuration

\* The estimates for which the subtraction (est + 200) - est of doubles
\* gives a value just below 200 (199.999...), as <<text.length, rate in
\* tenths>>: est + 200 is rounded down to the next double and the difference
\* keeps the loss.  IEEE-754 double arithmetic of
\* ((text.length / 15) * 1000 / rate + 200) - (text.length / 15) * 1000 / rate
\* for text.length 0..300 and rates 0.9, 1.0, 1.3.
EstimateRoundsDown ==
    {<<53, 9>>, <<109, 9>>,
     <<5, 10>>, <<29, 10>>, <<61, 10>>, <<122, 10>>, <<244, 10>>,
     <<2, 13>>, <<3, 13>>, <<7, 13>>, <<17, 13>>, <<19, 13>>, <<37, 13>>,
     <<38, 13>>, <<76, 13>>, <<79, 13>>, <<158, 13>>, <<159, 13>>}

\* SpeechManager.speak without a synthesizer or disabled: the promise resolves
\* at once with estimatedDuration = (text.length / 15) * 1000 / rate, and
\* speakAndWait sets its timer to max(minWait, est + 200) - est.  est is the
\* double nearest to (len * 10000) / (15 * rate10); setTimeout truncates its
\* delay to whole milliseconds.  When est + 200 >= minWait the difference is
\* 200 or, where the doubles lose the last bits, just below it (199 ms).
WaitAfterEstimate(minWait, len, rate10) ==
    LET num == len * 10000
        den == 15 * rate10
    IN IF num + 200 * den >= minWait * den
       THEN IF <<len, rate10>> \in EstimateRoundsDown THEN 199 ELSE 200
       ELSE minWait - ((num + den - 1) \div den)

(***************************************************************************)
(* The runs of runAnimation.  A run is one invocation of the async         *)
(* function with the values its effect closure captured.                   *)
(*   stage: "init" (initial delay), "highlight", "calc", "carry", "write", *)
(*          "completion" (after setIsDone), "returned"                     *)
(*   wait:  "timer" (a setTimeout is pending), "playing" (awaiting the      *)
(*          speech promise of an utterance being spoken), "interrupted"    *)
(*          (awaiting it, the utterance was cancelled and its event is     *)
(*          still to be delivered), "lost" (awaiting it, the synthesizer   *)
(*          will deliver neither end nor error), "none" (returned)         *)
(*   clock: the time since the run started at which it entered its stage   *)
(*   spoken: the utterances the run has handed to the synthesizer, in      *)
(*          order, each with the column and stage it was started in        *)
(***************************************************************************)
Durations == {100, 1000}   \* measured speech durations an utterance may have

NewRun(p, speed, speechOn, correct) ==
    [prob |-> p, speed |-> speed, speechOn |-> speechOn, correct |-> correct,
     stage |-> "init", col |-> 0, wait |-> "timer", cancelled |-> FALSE,
     minWait |-> BaseTiming(speed), elapsed |-> 0,
     delay |-> BaseTiming(speed), narr |-> "off", completions |-> 0,
     clock |-> 0, spoken |-> <<>>]

\* The record of a run that has returned: its closure is garbage.
Returned(rn, completions) ==
    [NewRun(rn.prob, "normal", FALSE, FALSE) EXCEPT
        !.stage = "returned", !.wait = "none", !.cancelled = rn.cancelled,
        !.minWait = 0, !.delay = 0, !.completions = completions]

\* The time run rn has spent in its stage when its pending timer fires.
Dwell(rn) == rn.elapsed + rn.delay

\* The columns / maxDigits captured by run rn's closure.
RunColumns(rn) == Decompose(rn.prob).columns
RunMaxDigits(rn) == Decompose(rn.prob).maxDigits

\* Mutant of Interrupted: synth.cancel() leaves the utterance playing.
InterruptedNot(rn) == rn

\* synth.cancel() as seen by a run awaiting an utterance: the utterance being
\* spoken is cancelled, its error/end event is delivered later.
Interrupted(rn) ==
    IF rn.wait = "playing" THEN [rn EXCEPT !.wait = "interrupted"] ELSE rn

\* SpeechManager.stop(): if (this.synth) this.synth.cancel()
StopSpeech(rs) ==
    IF synth # "none" THEN [i \in DOMAIN rs |-> Interrupted(rs[i])] ELSE rs

\* Mutant of IsCancelled: the cancelled flag is not consulted.
IsCancelledIgnored(rn) == FALSE

\* if (cancelled) return
IsCancelled(rn) == rn.cancelled

\* Mutant of hasCarryOrBorrow: the carry phase is entered for every column.
hasCarryOrBorrowAlways(operation, c) == TRUE

\* hasCarryOrBorrow for column c of an operation.
hasCarryOrBorrow(operation, c) ==
    IF operation = "addition" THEN c.carryOut > 0 ELSE c.needsBorrow

\* How speakAndWait(text, minWait) begins for a run with closure values
\* speechOn and speed: what the run awaits first.
SpeakOutcome(speechOn, speed, text, minWait) ==
    IF speechOn /\ text # ""
    THEN IF synth = "none" \/ ~Truthy(mgrEnabled)
         THEN [wait |-> "timer", narr |-> "estimated",
               delay |-> WaitAfterEstimate(minWait, Len(text),
                                           SpeechRate(speed))]
         ELSE [wait |-> IF synth = "silent" THEN "lost" ELSE "playing",
               narr |-> "speaking", delay |-> 0]
    ELSE [wait |-> "timer", narr |-> "off", delay |-> minWait]

\* Run r, whose pending timer has fired, enters `stage` of column col and
\* calls speakAndWait(text, minWait); a started utterance cancels the one
\* being spoken.
Await(r, stage, col, text, minWait) ==
    LET o == SpeakOutcome(runs[r].speechOn, runs[r].speed, text, minWait)
    IN runs' = [i \in DOMAIN runs |->
                  IF i = r
                  THEN [runs[r] EXCEPT !.stage = stage, !.col = col,
                                       !.wait = o.wait, !.minWait = minWait,
                                       !.elapsed = 0, !.delay = o.delay,
                                       !.narr = o.narr,
                                       !.clock = runs[r].clock
                                                 + Dwell(runs[r]),
                                       !.spoken =
                                          IF o.narr = "speaking"
                                          THEN Append(runs[r].spoken,
                                                 [col |-> col, stage |-> stage,
                                                  text |-> text])
                                          ELSE runs[r].spoken]
                  ELSE IF o.narr = "speaking" THEN Interrupted(runs[i])
                  ELSE runs[i]]

reactState == <<currentColumn, phase, isDone, writtenDigits>>
envVars == <<problem, memo, mounted, animationSpeed, speechEnabled, isCorrect,
             synth, mgrEnabled, gen, quiz, appVars>>

\* The timer of run r, awaiting in `stage`, has fired.
TimerFired(r, stage) ==
    /\ r \in DOMAIN runs
    /\ runs[r].stage = stage
    /\ runs[r].wait = "timer"

\* `if (cancelled) return` taken by run r.
ReturnCancelled(r) ==
    /\ runs' = [runs EXCEPT ![r] = Returned(@, @.completions)]
    /\ UNCHANGED <<reactState, envVars>>

\* Top of the column loop for col: setCurrentColumn(col); setPhase('highlight');
\* speakAndWait(highlightText, baseTiming) -- or, past the last column,
\* setIsDone(true); speakAndWait(completionText, baseTiming).
LoopOrDone(r, col) ==
    LET rn == runs[r]
    IN IF col < RunMaxDigits(rn)
       THEN /\ currentColumn' = col
            /\ phase' = "highlight"
            /\ UNCHANGED <<isDone, writtenDigits>>
            /\ Await(r, "highlight", col,
                     PhaseText(rn.prob.operation, "highlight",
                               RunColumns(rn)[col + 1]),
                     MinWait("highlight", rn.speed))
       ELSE /\ isDone' = TRUE
            /\ UNCHANGED <<currentColumn, phase, writtenDigits>>
            /\ \E text \in getCompletionSpeech(rn.correct, rn.prob.answer) :
                 Await(r, "completion", rn.col, text, BaseTiming(rn.speed))

\* Mutant of EnterWrite: the write phase is shown without the digit being
\* appended to writtenDigits.
EnterWriteNoAppend(r) ==
    LET rn == runs[r]
        c == RunColumns(rn)[rn.col + 1]
    IN /\ phase' = "write"
       /\ UNCHANGED <<writtenDigits, currentColumn, isDone>>
       /\ Await(r, "write", rn.col, PhaseText(rn.prob.operation, "write", c),
                MinWait("write", rn.speed))

\* Write phase: setPhase('write'); setWrittenDigits(prev => [...prev, digit]);
\* speakAndWait(writeText, 0.8 base), or the bare timer when writeText is ''.
EnterWrite(r) ==
    LET rn == runs[r]
        c == RunColumns(rn)[rn.col + 1]
    IN /\ phase' = "write"
       /\ writtenDigits' = Append(writtenDigits, c.resultDigit)
       /\ UNCHANGED <<currentColumn, isDone>>
       /\ Await(r, "write", rn.col, PhaseText(rn.prob.operation, "write", c),
                MinWait("write", rn.speed))

(***************************************************************************)
(* Steps of a run                                                          *)
(***************************************************************************)
\* The initial delay has elapsed (lines 459-491).
AfterInitialDelay(r) ==
    /\ TimerFired(r, "init")
    /\ IF IsCancelled(runs[r]) THEN ReturnCancelled(r)
       ELSE /\ LoopOrDone(r, 0)
            /\ UNCHANGED envVars

\* speakAndWait of the highlight phase is over (lines 492-496).
AfterHighlight(r) ==
    /\ TimerFired(r, "highlight")
    /\ IF IsCancelled(runs[r]) THEN ReturnCancelled(r)
       ELSE LET rn == runs[r]
                c == RunColumns(rn)[rn.col + 1]
            IN /\ phase' = "calc"
               /\ UNCHANGED <<currentColumn, isDone, writtenDigits>>
               /\ Await(r, "calc", rn.col,
                        PhaseText(rn.prob.operation, "calc", c),
                        MinWait("calc", rn.speed))
               /\ UNCHANGED envVars

\* speakAndWait of the calc phase is over (lines 497-517).
AfterCalc(r) ==
    /\ TimerFired(r, "calc")
    /\ IF IsCancelled(runs[r]) THEN ReturnCancelled(r)
       ELSE LET rn == runs[r]
                c == RunColumns(rn)[rn.col + 1]
            IN /\ IF hasCarryOrBorrow(rn.prob.operation, c)
                  THEN /\ phase' = "carry"
                       /\ UNCHANGED <<currentColumn, isDone, writtenDigits>>
                       /\ Await(r, "carry", rn.col,
                                PhaseText(rn.prob.operation, "carry", c),
                                MinWait("carry", rn.speed))
                  ELSE EnterWrite(r)
               /\ UNCHANGED envVars

\* speakAndWait of the carry phase is over (lines 507-517).
AfterCarry(r) ==
    /\ TimerFired(r, "carry")
    /\ IF IsCancelled(runs[r]) THEN ReturnCancelled(r)
       ELSE /\ EnterWrite(r)
            /\ UNCHANGED envVars

\* The write phase's wait is over (lines 518-524, and 464-491 for the next
\* column).
AfterWrite(r) ==
    /\ TimerFired(r, "write")
    /\ IF IsCancelled(runs[r]) THEN ReturnCancelled(r)
       ELSE /\ LoopOrDone(r, runs[r].col + 1)
            /\ UNCHANGED envVars

\* The completion announcement's wait is over (lines 525-527): onComplete?.()
AfterCompletion(r) ==
    /\ TimerFired(r, "completion")
    /\ IF IsCancelled(runs[r]) THEN ReturnCancelled(r)
       ELSE /\ runs' = [runs EXCEPT ![r] = Returned(@, @.completions + 1)]
            /\ UNCHANGED <<reactState, envVars>>

\* utterance.onend / utterance.onerror: the speech promise of run r resolves
\* with the measured duration d, and speakAndWait sets its timer (line 443).
SpeechResolved(r, d) ==
    /\ r \in DOMAIN runs
    /\ runs[r].wait \in {"playing", "interrupted"}
    /\ runs' = [runs EXCEPT ![r] =
                  [@ EXCEPT !.wait = "timer", !.elapsed = d,
                            !.delay = WaitAfterSpeech(runs[r].minWait, d),
                            !.narr = "played"]]
    /\ UNCHANGED <<reactState, envVars>>

(***************************************************************************)
(* React: mount, effect re-runs, unmount                                   *)
(***************************************************************************)
\* The effect's cleanup: cancelled = true (the flag of the latest effect
\* instance, i.e. of the latest run); speechManager.stop().
Cleanup(rs) ==
    StopSpeech([i \in DOMAIN rs |->
                  IF i = Len(rs) THEN [rs[i] EXCEPT !.cancelled = TRUE]
                  ELSE rs[i]])

\* The animation effect's body: runAnimation() up to its first await:
\* speechManager.stop(); setTimeout(baseTiming).
StartRun(rs, p, speed, speechOn, correct) ==
    Append(StopSpeech(rs), NewRun(p, speed, speechOn, correct))

\* Mutant of ResetState: the reset effect leaves writtenDigits alone.
ResetStateKeepsDigits ==
    /\ currentColumn' = -1
    /\ phase' = "highlight"
    /\ isDone' = FALSE
    /\ UNCHANGED writtenDigits

\* The reset effect: setCurrentColumn(-1); setPhase('highlight');
\* setIsDone(false); setWrittenDigits([]); speechManager.stop().
ResetState ==
    /\ currentColumn' = -1
    /\ phase' = "highlight"
    /\ isDone' = FALSE
    /\ writtenDigits' = <<>>

\* First render and effects of a new VerticalCalculation instance: useState
\* initial values, useMemo, the animation effect, the reset effect.
Mount ==
    /\ ~mounted
    /\ Len(runs) < MaxRuns
    /\ mounted' = TRUE
    /\ memo' = Decompose(problem)
    /\ ResetState
    /\ runs' = StopSpeech(StartRun(runs, problem, animationSpeed,
                                   Truthy(speechEnabled), isCorrect))
    /\ UNCHANGED <<problem, animationSpeed, speechEnabled, isCorrect, synth,
                   mgrEnabled, gen, quiz, appVars>>

\* The component is removed: the animation effect's cleanup runs.
Unmount ==
    /\ mounted
    /\ mounted' = FALSE
    /\ runs' = Cleanup(runs)
    /\ UNCHANGED <<problem, memo, animationSpeed, speechEnabled, isCorrect,
                   synth, mgrEnabled, reactState, gen, quiz, appVars>>

\* A re-render with another problem p (problem.id changes): cleanup of the
\* animation effect, then the animation effect and the reset effect run.
ProblemChange(p) ==
    /\ mounted
    /\ Len(runs) < MaxRuns
    /\ p.id # problem.id
    /\ problem' = p
    /\ memo' = Decompose(p)
    /\ runs' = StopSpeech(StartRun(Cleanup(runs), p, animationSpeed,
                                   Truthy(speechEnabled), isCorrect))
    /\ ResetState
    /\ UNCHANGED <<mounted, animationSpeed, speechEnabled, isCorrect, synth,
                   mgrEnabled, gen, quiz, appVars>>

\* A re-render with the same problem and another animationSpeed or isCorrect
\* (dependencies of the animation effect only): cleanup, then a new run; the
\* reset effect does not run.
DepChange(speed, correct) ==
    /\ mounted
    /\ Len(runs) < MaxRuns
    /\ <<speed, correct>> # <<animationSpeed, isCorrect>>
    /\ animationSpeed' = speed
    /\ isCorrect' = correct
    /\ runs' = StartRun(Cleanup(runs), problem, speed,
                        Truthy(speechEnabled), correct)
    /\ UNCHANGED <<problem, memo, mounted, speechEnabled, synth, mgrEnabled,
                   reactState, gen, quiz, appVars>>

\* settingsStore.toggleSpeech: speechManager.setEnabled(newValue) (which stops
\* the speech when disabling), set({speechEnabled: newValue}); a mounted
\* VerticalCalculation re-renders and its animation effect re-runs.
ToggleSpeech ==
    /\ mounted => Len(runs) < MaxRuns
    /\ LET newValue == ~Truthy(speechEnabled)
           stopped == IF newValue THEN runs ELSE StopSpeech(runs)
       IN /\ mgrEnabled' = Stored(newValue)
          /\ speechEnabled' = Stored(newValue)
          /\ runs' = IF mounted
                     THEN StartRun(Cleanup(stopped), problem, animationSpeed,
                                   newValue, isCorrect)
                     ELSE stopped
    /\ UNCHANGED <<problem, memo, mounted, animationSpeed, isCorrect, synth,
                   reactState, gen, quiz, appVars>>

\* types DEFAULT_SETTINGS, the fields the sequencer reads.  The object has no
\* speechEnabled field (nor has the Settings interface).
DEFAULT_SETTINGS == [animationSpeed |-> "normal", questionsPerQuiz |-> 10]

\* settingsStore.resetSettings: speechManager.setEnabled(
\* DEFAULT_SETTINGS.speechEnabled); set(DEFAULT_SETTINGS).  Reading the absent
\* field gives undefined, which the manager stores and treats as false
\* (setEnabled stops the speech, speak() takes the estimate branch); set()
\* merges, so a field DEFAULT_SETTINGS lacks keeps its value in the store.  A
\* mounted VerticalCalculation re-renders when a value it selects changed.
ResetSettings ==
    LET hasSpeech == "speechEnabled" \in DOMAIN DEFAULT_SETTINGS
        enabled == IF hasSpeech THEN Stored(DEFAULT_SETTINGS.speechEnabled)
                   ELSE undefined
        stored == IF hasSpeech THEN Stored(DEFAULT_SETTINGS.speechEnabled)
                  ELSE speechEnabled
        speed == DEFAULT_SETTINGS.animationSpeed
        stopped == IF Truthy(enabled) THEN runs ELSE StopSpeech(runs)
        rerun == mounted /\ <<speed, stored>> # <<animationSpeed, speechEnabled>>
    IN /\ rerun => Len(runs) < MaxRuns
       /\ mgrEnabled' = enabled
       /\ speechEnabled' = stored
       /\ animationSpeed' = speed
       /\ runs' = IF rerun
                  THEN StartRun(Cleanup(stopped), problem, speed,
                                Truthy(stored), isCorrect)
                  ELSE stopped
       /\ questionsPerQuiz' = DEFAULT_SETTINGS.questionsPerQuiz
       /\ UNCHANGED <<problem, memo, mounted, isCorrect, synth, reactState,
                      gen, quiz, page, pad>>

\* settingsStore.updateSetting('speechEnabled', value):
\* speechManager.setEnabled(value); set({speechEnabled: value}).  A mounted
\* VerticalCalculation re-renders when the value it selects changed, also
\* from undefined to false.
UpdateSpeechEnabled(value) ==
    LET stopped == IF value THEN runs ELSE StopSpeech(runs)
        rerun == mounted /\ Stored(value) # speechEnabled
    IN /\ rerun => Len(runs) < MaxRuns
       /\ mgrEnabled' = Stored(value)
       /\ speechEnabled' = Stored(value)
       /\ runs' = IF rerun
                  THEN StartRun(Cleanup(stopped), problem, animationSpeed,
                                value, isCorrect)
                  ELSE stopped
       /\ UNCHANGED <<problem, memo, mounted, animationSpeed, isCorrect,
                      synth, reactState, gen, quiz, appVars>>

\* settingsStore.setAnimationSpeed(speed): set({animationSpeed: speed}); a
\* mounted VerticalCalculation re-renders when the value changed.
setAnimationSpeed(speed) ==
    IF mounted
    THEN DepChange(speed, isCorrect)
    ELSE /\ animationSpeed' = speed
         /\ UNCHANGED <<problem, memo, mounted, speechEnabled, isCorrect,
                        synth, mgrEnabled, reactState, runs, gen, quiz,
                        appVars>>

\* The bounds of the question count documented for the settings (constants
\* MIN_QUESTIONS, MAX_QUESTIONS; setQuestionsPerQuiz repeats them).
MIN_QUESTIONS == 5
MAX_QUESTIONS == 20

\* settingsStore.setQuestionsPerQuiz(count):
\* set({questionsPerQuiz: Math.min(20, Math.max(5, count))}).
setQuestionsPerQuiz(count) ==
    LET floored == Max2(5, count)
        clampedCount == IF 20 <= floored THEN 20 ELSE floored
    IN /\ questionsPerQuiz' = clampedCount
       /\ UNCHANGED <<tutorVars, gen, quiz, page, pad>>

\* settingsStore.updateSetting('questionsPerQuiz', value):
\* set({questionsPerQuiz: value}).
UpdateQuestionsPerQuiz(value) ==
    /\ questionsPerQuiz' = value
    /\ UNCHANGED <<tutorVars, gen, quiz, page, pad>>

(***************************************************************************)
(* quizStore.ts.  startTime and problemStartTime hold "now" for a value of *)
(* Date.now(); a UserAnswer's timeSpent is left out.                       *)
(***************************************************************************)
initialState ==
    [level |-> "null", mode |-> "standard", problems |-> <<>>,
     currentIndex |-> 0, answers |-> <<>>, isComplete |-> FALSE,
     startTime |-> "null", problemStartTime |-> "null",
     totalAnswered |-> 0, correctInSession |-> 0]

(***************************************************************************)
(* QuizPage (one instance per visit of /quiz/:level) and NumberPad.  An    *)
(* input string is the sequence of its digits.                             *)
(***************************************************************************)
\* The page's useState values on mount, before any instance exists.
\*   route: the route shown, "/" (home), "/quiz" or "/results";
\*   pending: the 300 ms timer of handleCelebrationComplete is set;
\*   view: the child of the main AnimatePresence that is mounted, "none",
\*     "answering" (problem and NumberPad) or "solution"
\*     (VerticalCalculation);
\*   leaving: that child is no longer rendered by the page and plays its
\*     exit, mounted with the props and handlers of its last render;
\*   padValue: the value prop of a leaving NumberPad;
\*   dialog: the exit dialog is mounted (shown, or playing its exit);
\*   shownProblem: the id of the problem the VerticalCalculation was last
\*     rendered with;
\*   animation: the VerticalCalculation of the page ("none" when it is not
\*     rendered, "running" until its run calls onComplete, then "returned");
\*   instance: how many instances were mounted so far (this one included);
\*   stale: the instances unmounted with their 300 ms timer still set;
\*   session: the instance whose startQuiz the store's quiz comes from, 0
\*     once resetQuiz ran;
\*   nexts: nextProblem calls since the last submitAnswer call.
NoPage ==
    [route |-> "/", flowState |-> "answering", userInput |-> <<>>,
     lastAnswerCorrect |-> FALSE, showExitConfirm |-> FALSE,
     pending |-> FALSE, view |-> "none", leaving |-> FALSE,
     padValue |-> <<>>, dialog |-> FALSE, animation |-> "none",
     shownProblem |-> null, instance |-> 0, stale |-> {}, session |-> 0,
     nexts |-> 0]

\* A NumberPad with its default props (maxDigits = 2, disabled = false) and
\* an empty value; forwarded: the last handler call invoked onSubmit.
NoPad ==
    [value |-> <<>>, maxDigits |-> 2, disabled |-> FALSE,
     forwarded |-> FALSE]

\* Mutant of NumberPadMaxDigits: the thresholds are exclusive.
NumberPadMaxDigitsStrict(levelConfig) ==
    IF levelConfig.maxNumber > 1000 THEN 4
    ELSE IF levelConfig.maxNumber > 100 THEN 3
    ELSE 2

\* The maxDigits prop QuizPage passes to its NumberPad:
\* levelConfig.maxNumber >= 1000 ? 4 : levelConfig.maxNumber >= 100 ? 3 : 2
NumberPadMaxDigits(levelConfig) ==
    IF levelConfig.maxNumber >= 1000 THEN 4
    ELSE IF levelConfig.maxNumber >= 100 THEN 3
    ELSE 2

\* Mutant of handleNumberPress: the digit is appended whatever the value.
handleNumberPressAppend(value, num, maxDigits, disabled) ==
    IF disabled THEN value
    ELSE IF Len(value) >= maxDigits THEN value
    ELSE Append(value, num)

\* NumberPad.handleNumberPress(num): the value after the call (the argument
\* of onChange, or the value as it was when onChange is not called).
handleNumberPress(value, num, maxDigits, disabled) ==
    IF disabled THEN value
    ELSE IF Len(value) >= maxDigits THEN value
    ELSE IF value = <<0>> /\ num = 0 THEN value
    ELSE IF value = <<0>> /\ num # 0 THEN <<num>>
    ELSE Append(value, num)

\* NumberPad.handleClear: the value after the call.
handleClear(value, disabled) ==
    IF disabled THEN value ELSE <<>>

\* NumberPad.handleBackspace: the value after the call (value.slice(0, -1)).
handleBackspace(value, disabled) ==
    IF disabled THEN value
    ELSE IF Len(value) = 0 THEN value
    ELSE SubSeq(value, 1, Len(value) - 1)

\* NumberPad.handleSubmit: does the call invoke onSubmit.
handleSubmit(value, disabled) ==
    IF disabled THEN FALSE
    ELSE IF Len(value) = 0 THEN FALSE
    ELSE TRUE

\* A press of digit key or button num on the pad; the parent stores what
\* onChange passes and hands it back as the value prop.
PressNumber(num) ==
    /\ pad' = [pad EXCEPT
                 !.value = handleNumberPress(pad.value, num, pad.maxDigits,
                                             pad.disabled),
                 !.forwarded = FALSE]
    /\ UNCHANGED <<tutorVars, gen, quiz, questionsPerQuiz, page>>

\* The clear button or Escape.
PressClear ==
    /\ pad' = [pad EXCEPT !.value = handleClear(pad.value, pad.disabled),
                          !.forwarded = FALSE]
    /\ UNCHANGED <<tutorVars, gen, quiz, questionsPerQuiz, page>>

\* The backspace button or key.
PressBackspace ==
    /\ pad' = [pad EXCEPT
                 !.value = handleBackspace(pad.value, pad.disabled),
                 !.forwarded = FALSE]
    /\ UNCHANGED <<tutorVars, gen, quiz, questionsPerQuiz, page>>

\* The submit button or Enter.
PressSubmit ==
    /\ pad' = [pad EXCEPT
                 !.forwarded = handleSubmit(pad.value, pad.disabled)]
    /\ UNCHANGED <<tutorVars, gen, quiz, questionsPerQuiz, page>>

\* The parent re-renders the pad with another disabled prop.
SetDisabled(disabled) ==
    /\ disabled # pad.disabled
    /\ pad' = [pad EXCEPT !.disabled = disabled, !.forwarded = FALSE]
    /\ UNCHANGED <<tutorVars, gen, quiz, questionsPerQuiz, page>>

(***************************************************************************)
(* Specifications                                                          *)
(***************************************************************************)
\* The sequencer's variables before the component is mounted.
SeqBase ==
    /\ mounted = FALSE
    /\ memo = NoMemo
    /\ currentColumn = -1
    /\ phase = "highlight"
    /\ isDone = FALSE
    /\ writtenDigits = <<>>
    /\ runs = <<>>
    /\ gen = GenIdle
    /\ quiz = initialState
    /\ questionsPerQuiz = DEFAULT_SETTINGS.questionsPerQuiz
    /\ page = NoPage

SeqIdle == SeqBase /\ pad = NoPad

\* Spec: the sequencer under re-renders, unmounts and settings changes, on
\* 7 + 5 (carry; width 2 from the answer) and 3 + 4 (one column, no carry),
\* with a synthesizer that delivers its events or none at all.
SeqProblems == {AdditionProblem(1, 7, 5), AdditionProblem(2, 3, 4)}
SeqSpeeds == {"normal", "fast"}
SeqDurations == {1000}

Init ==
    /\ problem \in SeqProblems
    /\ animationSpeed = "normal"
    /\ speechEnabled \in OptionalBoolean
    /\ mgrEnabled = speechEnabled
    /\ isCorrect \in BOOLEAN
    /\ synth \in {"none", "ok"}
    /\ SeqIdle

RunStep(r, D) ==
    \/ AfterInitialDelay(r)
    \/ AfterHighlight(r)
    \/ AfterCalc(r)
    \/ AfterCarry(r)
    \/ AfterWrite(r)
    \/ AfterCompletion(r)
    \/ \E d \in D : SpeechResolved(r, d)

Next ==
    \/ Mount
    \/ Unmount
    \/ \E p \in SeqProblems : ProblemChange(p)
    \/ \E speed \in SeqSpeeds : DepChange(speed, isCorrect)
    \/ DepChange(animationSpeed, ~isCorrect)
    \/ ToggleSpeech
    \/ \E r \in 1..MaxRuns : RunStep(r, SeqDurations)

Spec == Init /\ [][Next]_vars

\* SpecSettings: a VerticalCalculation mounted once and left mounted, under
\* the settings store's actions on speech and speed, with a synthesizer that
\* delivers its events.
InitSettings ==
    /\ problem = AdditionProblem(1, 7, 5)
    /\ animationSpeed = "normal"
    /\ speechEnabled \in OptionalBoolean
    /\ mgrEnabled = speechEnabled
    /\ isCorrect = TRUE
    /\ synth = "ok"
    /\ SeqIdle

NextSettings ==
    \/ Len(runs) = 0 /\ Mount
    \/ ToggleSpeech
    \/ \E value \in BOOLEAN : UpdateSpeechEnabled(value)
    \/ ResetSettings
    \/ \E speed \in SeqSpeeds : DepChange(speed, isCorrect)
    \/ \E r \in 1..MaxRuns : RunStep(r, SeqDurations)

SpecSettings == InitSettings /\ [][NextSettings]_vars

\* SpecQuestions: the settings store alone (no component mounted) under its
\* actions, with question counts 0..MaxQuestionCount passed by the callers.
MaxQuestionCount == 25

QuestionCounts == 0..MaxQuestionCount

NextQuestions ==
    \/ \E count \in QuestionCounts : setQuestionsPerQuiz(count)
    \/ \E value \in QuestionCounts : UpdateQuestionsPerQuiz(value)
    \/ \E speed \in Speeds : setAnimationSpeed(speed)
    \/ ToggleSpeech
    \/ \E value \in BOOLEAN : UpdateSpeechEnabled(value)
    \/ ResetSettings

SpecQuestions == InitSettings /\ [][NextQuestions]_vars

\* SpecRun: one uninterrupted run -- the component is mounted once and left
\* alone -- for every speed, with and without narration, on problems of one
\* to three columns, with every kind of synthesizer.
RunProblems ==
    SeqProblems \cup
    {SubtractionProblem(3, 12, 5), SubtractionProblem(4, 100, 1),
     AdditionProblem(5, 23, 45), AdditionProblem(6, 99, 1),
     SubtractionProblem(7, 0, 0), SubtractionProblem(8, 57, 23)}

InitRun ==
    /\ problem \in RunProblems
    /\ animationSpeed \in Speeds
    /\ speechEnabled \in OptionalBoolean
    /\ mgrEnabled = speechEnabled
    /\ isCorrect \in BOOLEAN
    /\ synth \in {"none", "ok", "silent"}
    /\ SeqIdle

NextRun ==
    \/ Len(runs) = 0 /\ Mount
    \/ \E r \in 1..MaxRuns : RunStep(r, Durations)

SpecRun == InitRun /\ [][NextRun]_vars

\* SpecLive: one uninterrupted run in which the timers fire and the
\* synthesizer's pending events are delivered (setTimeout callbacks and
\* speech events are run by the browser's event loop).
InitLive ==
    /\ problem \in SeqProblems
    /\ animationSpeed = "normal"
    /\ speechEnabled \in OptionalBoolean
    /\ mgrEnabled = speechEnabled
    /\ isCorrect \in BOOLEAN
    /\ synth \in {"none", "ok", "silent"}
    /\ SeqIdle

SpecLive == InitLive /\ [][NextRun]_vars /\ WF_vars(NextRun)

\* SpecDecomp: the decomposition as a function of the problem, for every
\* problem over Operands: addition with any two operands, subtraction with
\* operand1 >= operand2.
InitDecomp ==
    /\ problem \in
         {AdditionProblem(0, a, b) : a \in Operands, b \in Operands}
         \cup {SubtractionProblem(0, ab[1], ab[2]) :
                 ab \in {x \in Operands \X Operands : x[1] >= x[2]}}
    /\ animationSpeed = "normal"
    /\ speechEnabled = undefined
    /\ mgrEnabled = undefined
    /\ isCorrect = TRUE
    /\ synth = "none"
    /\ SeqIdle

\* The render's useMemo alone.
ComputeColumns ==
    /\ memo = NoMemo
    /\ memo' = Decompose(problem)
    /\ UNCHANGED <<problem, seqVars>>

NextDecomp == ComputeColumns

SpecDecomp == InitDecomp /\ [][NextDecomp]_vars

\* SpecDecompAny: the decomposition of the subtractions a caller can pass to
\* VerticalCalculation, operand1 < operand2 included (answer = operand1 -
\* operand2 is then negative).
InitDecompAny ==
    /\ problem \in {SubtractionProblem(0, a, b) :
                       a \in Operands, b \in Operands}
    /\ animationSpeed = "normal"
    /\ speechEnabled = undefined
    /\ mgrEnabled = undefined
    /\ isCorrect = TRUE
    /\ synth = "none"
    /\ SeqIdle

SpecDecompAny == InitDecompAny /\ [][NextDecomp]_vars

\* SpecProblem: one call of generateProblem, for the configurations of the
\* levels up to 100 and for configurations with maxNumber 0..MaxNumber.
ProblemLevels == QuizLevels \ {"add-sub-1000", "mixed-1000"}

GenConfigs ==
    {LEVEL_CONFIGS(level) : level \in ProblemLevels}
    \cup {[maxNumber |-> n, operations |-> ops] :
            n \in 0..MaxNumber,
            ops \in {<<"addition">>, <<"subtraction">>,
                     <<"addition", "subtraction">>}}

InitGen ==
    /\ problem = AdditionProblem(1, 7, 5)
    /\ animationSpeed = "normal"
    /\ speechEnabled = undefined
    /\ mgrEnabled = undefined
    /\ isCorrect = TRUE
    /\ synth = "none"
    /\ SeqIdle

\* generateProblem returns problem p for a level configured as config.
GenerateOne(config) ==
    /\ gen.pc = "idle"
    /\ \E p \in generateProblemFor(config) :
         gen' = [GenIdle EXCEPT !.pc = "problem", !.config = config,
                                !.problems = <<p>>]
    /\ UNCHANGED <<tutorVars, quiz, appVars>>

NextProblem == \E config \in GenConfigs : GenerateOne(config)

SpecProblem == InitGen /\ [][NextProblem]_vars

\* SpecQuiz: one call of generateQuiz(level, count) for count 0..MaxCount
\* and level add-sub-10, with Math.random() such that the operands drawn are
\* 0 or 1.  gen.draws is the set of problems generateProblem can return
\* during the call.
QuizConfigs == {LEVEL_CONFIGS("add-sub-10")}

QuizOperands == {0, 1}

QuizDraws(config) ==
    {p \in generateProblemFor(config) :
        p.operand1 \in QuizOperands /\ p.operand2 \in QuizOperands}

\* generateQuiz is entered: problems = [], attempts = 0.
QuizStart(config, count) ==
    /\ gen.pc = "idle"
    /\ gen' = [pc |-> "loop", config |-> config, count |-> count,
               problems |-> <<>>, attempts |-> 0, checked |-> 0,
               draws |-> QuizDraws(config)]
    /\ UNCHANGED <<tutorVars, quiz, appVars>>

\* One iteration of the first loop with newProblem = generateProblem(level).
QuizAttempt(newProblem) ==
    /\ gen.pc = "loop"
    /\ Len(gen.problems) < gen.count
    /\ gen.attempts < MaxAttempts(gen.count)
    /\ LET problems == IF Accepts(gen.problems, newProblem)
                       THEN Append(gen.problems, newProblem)
                       ELSE gen.problems
       IN gen' = [gen EXCEPT !.problems = problems,
                             !.attempts = gen.attempts + 1,
                             !.checked = Len(problems)]
    /\ UNCHANGED <<tutorVars, quiz, appVars>>

\* The first loop's condition is false: on to the second loop.
QuizLoopExit ==
    /\ gen.pc = "loop"
    /\ ~(/\ Len(gen.problems) < gen.count
         /\ gen.attempts < MaxAttempts(gen.count))
    /\ gen' = [gen EXCEPT !.pc = "fill"]
    /\ UNCHANGED <<tutorVars, quiz, appVars>>

\* One iteration of the second loop: problems.push(generateProblem(level)).
QuizFill(newProblem) ==
    /\ gen.pc = "fill"
    /\ FillNeeded(gen)
    /\ gen' = [gen EXCEPT !.problems = Append(gen.problems, newProblem)]
    /\ UNCHANGED <<tutorVars, quiz, appVars>>

\* return problems
QuizReturn ==
    /\ gen.pc = "fill"
    /\ ~FillNeeded(gen)
    /\ gen' = [gen EXCEPT !.pc = "done"]
    /\ UNCHANGED <<tutorVars, quiz, appVars>>

NextQuiz ==
    \/ \E config \in QuizConfigs, count \in 0..MaxCount :
         QuizStart(config, count)
    \/ \E newProblem \in gen.draws : QuizAttempt(newProblem)
    \/ QuizLoopExit
    \/ \E newProblem \in gen.draws : QuizFill(newProblem)
    \/ QuizReturn

SpecQuiz == InitGen /\ [][NextQuiz]_vars

\* generateQuiz(level, count) as its caller sees it, for a generateProblem
\* that draws from `draws`: the lists it can return.  Both loops stop at
\* problems.length = count, and the second pushes unchecked draws, so every
\* list of count draws is a possible result.
generateQuiz(draws, count) == [1..count -> draws]

\* The size of the initial batch of an unlimited quiz: generateQuiz(level, 5).
InitialBatch == 5

\* validateAnswer(problem, userAnswer)
validateAnswer(p, userAnswer) == p.answer = userAnswer

\* The problems generateProblem(level) draws in the store's specification:
\* Math.random() is such that every draw is 1 + 1.
StoreDraws(level) ==
    {p \in QuizDraws(LEVEL_CONFIGS(level)) :
        p.operation = "addition" /\ p.operand1 = 1 /\ p.operand2 = 1}

\* generateId() gives every problem an id of its own: the k-th problem a
\* store receives after startQuiz carries id k.
WithId(p, k) == [p EXCEPT !.id = k]

\* The store states startQuiz(level, questionCount, mode) can set.
startQuizSets(level, questionCount, mode) ==
    {[level |-> level, mode |-> mode,
      problems |-> [k \in DOMAIN problems |-> WithId(problems[k], k)],
      currentIndex |-> 0, answers |-> <<>>, isComplete |-> FALSE,
      startTime |-> "now", problemStartTime |-> "now",
      totalAnswered |-> 0, correctInSession |-> 0] :
        problems \in generateQuiz(StoreDraws(level),
                                  IF mode = "unlimited" THEN InitialBatch
                                  ELSE questionCount)}

\* startQuiz(level, questionCount, mode)
startQuiz(level, questionCount, mode) ==
    /\ quiz' \in startQuizSets(level, questionCount, mode)
    /\ UNCHANGED <<tutorVars, gen, appVars>>

\* The value submitAnswer(answer) returns in store state q: false if
\* currentIndex >= problems.length, else isCorrect.
submitAnswerReturns(q, answer) ==
    IF q.currentIndex >= Len(q.problems)
    THEN FALSE
    ELSE validateAnswer(q.problems[q.currentIndex + 1], answer)

\* Mutant of submitAnswer: a call with no current problem is counted.
submitAnswerCountsRejected(answer) ==
    /\ Len(quiz.answers) < MaxAnswers
    /\ IF quiz.currentIndex >= Len(quiz.problems)
       THEN quiz' = [quiz EXCEPT !.totalAnswered = @ + 1]
       ELSE LET currentProblem == quiz.problems[quiz.currentIndex + 1]
                correct == submitAnswerReturns(quiz, answer)
            IN quiz' = [quiz EXCEPT
                          !.answers = Append(@, [problemId |-> currentProblem.id,
                                                 userAnswer |-> answer,
                                                 isCorrect |-> correct]),
                          !.totalAnswered = @ + 1,
                          !.correctInSession = IF correct THEN @ + 1 ELSE @]
    /\ UNCHANGED <<tutorVars, gen, appVars>>

\* Mutant of submitAnswer: only correct answers are counted in totalAnswered.
submitAnswerCountsCorrect(answer) ==
    /\ Len(quiz.answers) < MaxAnswers
    /\ IF quiz.currentIndex >= Len(quiz.problems)
       THEN UNCHANGED quiz
       ELSE LET currentProblem == quiz.problems[quiz.currentIndex + 1]
                correct == submitAnswerReturns(quiz, answer)
            IN quiz' = [quiz EXCEPT
                          !.answers = Append(@, [problemId |-> currentProblem.id,
                                                 userAnswer |-> answer,
                                                 isCorrect |-> correct]),
                          !.totalAnswered = IF correct THEN @ + 1 ELSE @,
                          !.correctInSession = IF correct THEN @ + 1 ELSE @]
    /\ UNCHANGED <<tutorVars, gen, appVars>>

\* The store state submitAnswer(answer) sets in state q: q itself if
\* currentIndex >= problems.length, else the answer is recorded and counted.
submitAnswerSets(q, answer) ==
    IF q.currentIndex >= Len(q.problems)
    THEN q
    ELSE LET currentProblem == q.problems[q.currentIndex + 1]
             correct == submitAnswerReturns(q, answer)
         IN [q EXCEPT
               !.answers = Append(@, [problemId |-> currentProblem.id,
                                      userAnswer |-> answer,
                                      isCorrect |-> correct]),
               !.totalAnswered = @ + 1,
               !.correctInSession = IF correct THEN @ + 1 ELSE @]

\* submitAnswer(answer)
submitAnswer(answer) ==
    /\ Len(quiz.answers) < MaxAnswers
    /\ quiz' = submitAnswerSets(quiz, answer)
    /\ UNCHANGED <<tutorVars, gen, appVars>>

\* Mutant of nextProblem: the standard quiz completes one index early.
nextProblemEarly ==
    /\ quiz.mode = "unlimited" => quiz.currentIndex < MaxIndex
    /\ LET nextIndex == quiz.currentIndex + 1
       IN IF quiz.mode = "unlimited"
          THEN IF nextIndex >= Len(quiz.problems) - 2 /\ quiz.level # "null"
               THEN \E newProblem \in StoreDraws(quiz.level) :
                      quiz' = [quiz EXCEPT
                                 !.problems =
                                    Append(@, WithId(newProblem,
                                                     Len(@) + 1)),
                                 !.currentIndex = nextIndex,
                                 !.problemStartTime = "now"]
               ELSE quiz' = [quiz EXCEPT !.currentIndex = nextIndex,
                                         !.problemStartTime = "now"]
          ELSE IF nextIndex >= Len(quiz.problems) - 1
               THEN quiz' = [quiz EXCEPT !.isComplete = TRUE,
                                         !.problemStartTime = "null"]
               ELSE quiz' = [quiz EXCEPT !.currentIndex = nextIndex,
                                         !.problemStartTime = "now"]
    /\ UNCHANGED <<tutorVars, gen, appVars>>

\* Mutant of nextProblem: unlimited mode never appends a problem.
nextProblemNoRefill ==
    /\ quiz.mode = "unlimited" => quiz.currentIndex < MaxIndex
    /\ LET nextIndex == quiz.currentIndex + 1
       IN IF quiz.mode = "unlimited"
          THEN quiz' = [quiz EXCEPT !.currentIndex = nextIndex,
                                    !.problemStartTime = "now"]
          ELSE IF nextIndex >= Len(quiz.problems)
               THEN quiz' = [quiz EXCEPT !.isComplete = TRUE,
                                         !.problemStartTime = "null"]
               ELSE quiz' = [quiz EXCEPT !.currentIndex = nextIndex,
                                         !.problemStartTime = "now"]
    /\ UNCHANGED <<tutorVars, gen, appVars>>

\* The store states nextProblem() can set in state q: unlimited mode moves
\* on and appends a generated problem when running low; standard mode moves
\* on or, at the last problem, completes the quiz.
nextProblemSets(q) ==
    LET nextIndex == q.currentIndex + 1
    IN IF q.mode = "unlimited"
       THEN IF nextIndex >= Len(q.problems) - 2 /\ q.level # "null"
            THEN {[q EXCEPT
                     !.problems = Append(@, WithId(newProblem, Len(@) + 1)),
                     !.currentIndex = nextIndex,
                     !.problemStartTime = "now"] :
                    newProblem \in StoreDraws(q.level)}
            ELSE {[q EXCEPT !.currentIndex = nextIndex,
                            !.problemStartTime = "now"]}
       ELSE IF nextIndex >= Len(q.problems)
            THEN {[q EXCEPT !.isComplete = TRUE,
                            !.problemStartTime = "null"]}
            ELSE {[q EXCEPT !.currentIndex = nextIndex,
                            !.problemStartTime = "now"]}

\* nextProblem()
nextProblem ==
    /\ quiz.mode = "unlimited" => quiz.currentIndex < MaxIndex
    /\ quiz' \in nextProblemSets(quiz)
    /\ UNCHANGED <<tutorVars, gen, appVars>>

\* The store state endUnlimitedSession() sets in state q.
endUnlimitedSessionSets(q) ==
    [q EXCEPT !.isComplete = TRUE, !.problemStartTime = "null"]

\* endUnlimitedSession()
endUnlimitedSession ==
    /\ quiz' = endUnlimitedSessionSets(quiz)
    /\ UNCHANGED <<tutorVars, gen, appVars>>

\* resetQuiz()
resetQuiz ==
    /\ quiz' = initialState
    /\ UNCHANGED <<tutorVars, gen, appVars>>

\* getCurrentProblem(): the current problem, or null.
NullProblem == [id |-> null]

getCurrentProblem(q) ==
    IF q.isComplete \/ q.currentIndex >= Len(q.problems)
    THEN NullProblem
    ELSE q.problems[q.currentIndex + 1]

\* The whole percentages k for which the double (a / b) * 100 of a ratio
\* worth exactly k + 0.5 percent is just below k + 0.5 (23 / 40 * 100 =
\* 57.49999999999999): IEEE-754 double arithmetic for k < 400.
HalfRoundsDown ==
    {14, 28, 56, 57, 100, 101, 102, 103, 125, 126, 127, 213, 215, 217, 219,
     238, 240, 242, 244}

\* Math.round((a / b) * 100) for a >= 0, b > 0, a < 4 * b: the nearest
\* integer; a ratio worth k + 0.5 percent is rounded up unless the double
\* product falls below the half.
RoundPercent(a, b) ==
    LET twice == (200 * a) \div b
        k == (twice - 1) \div 2
    IN IF (200 * a) % b = 0 /\ twice % 2 = 1 /\ k \in HalfRoundsDown
       THEN k
       ELSE (200 * a + b) \div (2 * b)

\* getResults() in store state q: totalProblems, correctCount, incorrectCount
\* and percentage (the times are left out).
getResults(q) ==
    IF q.mode = "unlimited"
    THEN [totalProblems |-> q.totalAnswered,
          correctCount |-> q.correctInSession,
          incorrectCount |-> q.totalAnswered - q.correctInSession,
          percentage |-> IF q.totalAnswered > 0
                         THEN RoundPercent(q.correctInSession, q.totalAnswered)
                         ELSE 0]
    ELSE LET correctCount ==
                 Cardinality({i \in DOMAIN q.answers : q.answers[i].isCorrect})
             incorrectCount ==
                 Cardinality({i \in DOMAIN q.answers : ~q.answers[i].isCorrect})
             totalProblems == Len(q.problems)
         IN [totalProblems |-> totalProblems,
             correctCount |-> correctCount,
             incorrectCount |-> incorrectCount,
             percentage |-> IF totalProblems > 0
                            THEN RoundPercent(correctCount, totalProblems)
                            ELSE 0]

\* SpecStore: the quiz store under its actions, for level add-sub-10, both
\* modes and question counts 0..MaxQuestions, with answers 0 and 2.
StoreLevels == {"add-sub-10"}
StoreAnswers == {0, 2}

NextStore ==
    \/ \E level \in StoreLevels, questionCount \in 0..MaxQuestions,
          mode \in {"standard", "unlimited"} :
            startQuiz(level, questionCount, mode)
    \/ \E answer \in StoreAnswers : submitAnswer(answer)
    \/ nextProblem
    \/ endUnlimitedSession
    \/ resetQuiz

SpecStore == InitGen /\ [][NextStore]_vars

\* SpecPad: one NumberPad with the widths the quiz page passes, enabled or
\* disabled, under every key and button.
PadWidths == {2, 3, 4}

PadDigits == 0..9

InitPad ==
    /\ problem = AdditionProblem(1, 7, 5)
    /\ animationSpeed = "normal"
    /\ speechEnabled = undefined
    /\ mgrEnabled = undefined
    /\ isCorrect = TRUE
    /\ synth = "none"
    /\ SeqBase
    /\ pad \in {[NoPad EXCEPT !.maxDigits = m, !.disabled = d] :
                  m \in PadWidths, d \in BOOLEAN}

NextPad ==
    \/ \E num \in PadDigits : PressNumber(num)
    \/ PressClear
    \/ PressBackspace
    \/ PressSubmit
    \/ \E disabled \in BOOLEAN : SetDisabled(disabled)

SpecPad == InitPad /\ [][NextPad]_vars

\* SpecLevels: one call of generateProblem for each of the eight levels,
\* with Math.random() such that the operands drawn are in Operands (the
\* small operands and those around the powers of ten).
generateProblemAmong(config, operands) ==
    UNION {IF operation = "addition"
           THEN UNION {{AdditionProblem(GeneratedId, operand1, operand2) :
                          operand2 \in getRandomInt(0, config.maxNumber
                                                       - operand1)
                                       \cap operands} :
                       operand1 \in getRandomInt(0, config.maxNumber)
                                    \cap operands}
           ELSE UNION {{SubtractionProblem(GeneratedId, operand1, operand2) :
                          operand2 \in getRandomInt(0, operand1)
                                       \cap operands} :
                       operand1 \in getRandomInt(0, config.maxNumber)
                                    \cap operands} :
           operation \in getRandomOperation(config.operations)}

GenerateFor(level) ==
    /\ gen.pc = "idle"
    /\ \E p \in generateProblemAmong(LEVEL_CONFIGS(level), Operands) :
         gen' = [GenIdle EXCEPT !.pc = "problem",
                                !.config = LEVEL_CONFIGS(level),
                                !.problems = <<p>>]
    /\ UNCHANGED <<tutorVars, quiz, appVars>>

NextLevels == \E level \in QuizLevels : GenerateFor(level)

SpecLevels == InitGen /\ [][NextLevels]_vars

(***************************************************************************)
(* QuizPage: its handlers, effects and timers.  A step of the page sets    *)
(* the store and the page's state together (Commit).                       *)
(***************************************************************************)
\* The bounds of the page's specification: the visits of the quiz page,
\* the answers per quiz, the digit keys pressed and the question counts set.
MaxPages == 2
MaxPageAnswers == 6
PageDigits == {2}
PageCounts == {MIN_QUESTIONS}

\* The level of the route /quiz/:level.
PageLevel == "add-sub-10"

\* parseInt(value, 10) of a non-empty string of digits.
RECURSIVE parseInt(_)
parseInt(value) ==
    IF Len(value) = 0 THEN 0
    ELSE 10 * parseInt(SubSeq(value, 1, Len(value) - 1)) + value[Len(value)]

\* The page renders its content (not "Loading..."): currentProblem is there.
Rendered(q) == getCurrentProblem(q) # NullProblem

\* The child the page renders in its main AnimatePresence for a flow state.
ViewOf(flowState) ==
    CASE flowState = "answering" -> "answering"
      [] flowState \in {"showing-solution", "celebrating"} -> "solution"
      [] OTHER -> "none"

\* What is mounted after a step that leaves the page's state as pg2 (with
\* the mounted children of before the step) and the store as q2; pg is the
\* page before the step.  Outside
\* the quiz route and while "Loading..." is returned nothing is.  The main
\* AnimatePresence (mode "wait") mounts the rendered child when it holds
\* none, keeps a child that is rendered again, and keeps a child that is no
\* longer rendered as it was last rendered until its exit has ended; the
\* dialog's AnimatePresence does the same for the dialog.  A
\* VerticalCalculation starts its run when it mounts and when it is rendered
\* with another problem.
Mounted(pg, pg2, q2) ==
    IF pg2.route # "/quiz" \/ ~Rendered(q2)
    THEN [pg2 EXCEPT !.view = "none", !.leaving = FALSE, !.padValue = <<>>,
                     !.dialog = FALSE, !.animation = "none",
                     !.shownProblem = null]
    ELSE LET target == ViewOf(pg2.flowState)
             view == IF pg2.view = "none" THEN target ELSE pg2.view
             leaving == view # target
             live == view = "solution" /\ ~leaving
             id == getCurrentProblem(q2).id
             starts == live /\ (pg2.view # "solution" \/ pg2.shownProblem # id)
         IN [pg2 EXCEPT
               !.view = view,
               !.leaving = leaving,
               !.padValue = IF view = "answering" /\ leaving
                            THEN IF pg2.leaving THEN pg2.padValue
                                 ELSE pg.userInput
                            ELSE <<>>,
               !.dialog = pg2.showExitConfirm \/ pg2.dialog,
               !.animation = IF view # "solution" THEN "none"
                             ELSE IF starts THEN "running"
                             ELSE pg2.animation,
               !.shownProblem = IF view # "solution" THEN null
                                ELSE IF live THEN id
                                ELSE pg2.shownProblem]

\* A step of the page that leaves the store as q2 and the page's state as
\* pg2.
Commit(pg2, q2) ==
    /\ quiz' = q2
    /\ page' = Mounted(page, pg2, q2)
    /\ UNCHANGED <<tutorVars, gen, questionsPerQuiz, pad>>

\* navigate(route) away from the quiz page: the instance is unmounted, its
\* 300 ms timer, if set, stays set (nothing clears it).
Leave(pg, route, session) ==
    [NoPage EXCEPT !.route = route, !.instance = pg.instance,
                   !.stale = IF pg.pending THEN pg.stale \cup {pg.instance}
                             ELSE pg.stale,
                   !.session = session, !.nexts = pg.nexts]

\* A new instance of the page, mounted.
NewPage(pg) ==
    [NoPage EXCEPT !.route = "/quiz", !.instance = pg.instance + 1,
                   !.stale = pg.stale, !.session = pg.instance + 1]

\* The home page navigates to /quiz/:level?mode=...: the page mounts and its
\* effect calls startQuiz(level, questionsPerQuiz, modeParam).
PageMount(modeParam) ==
    /\ page.route = "/"
    /\ page.instance < MaxPages
    /\ \E q2 \in startQuizSets(PageLevel, questionsPerQuiz, modeParam) :
         Commit(NewPage(page), q2)

\* The value prop of the mounted NumberPad: userInput, or for a leaving pad
\* the userInput of its last render.  Its disabled prop was false in every
\* render of the answering view.
PadValue(pg) == IF pg.leaving THEN pg.padValue ELSE pg.userInput

\* A digit key or button of the page's NumberPad; onChange is setUserInput
\* and is not called when the handler returns early.
PageNumber(num) ==
    /\ page.view = "answering"
    /\ LET value == PadValue(page)
           changed == handleNumberPress(value, num,
                          NumberPadMaxDigits(LEVEL_CONFIGS(PageLevel)), FALSE)
       IN Commit([page EXCEPT !.userInput =
                     IF changed = value THEN @ ELSE changed],
                 quiz)

\* Backspace on the page's NumberPad.
PageBackspace ==
    /\ page.view = "answering"
    /\ LET value == PadValue(page)
           changed == handleBackspace(value, FALSE)
       IN Commit([page EXCEPT !.userInput =
                     IF changed = value THEN @ ELSE changed],
                 quiz)

\* Escape or the clear button of the page's NumberPad: onChange('').
PageClear ==
    /\ page.view = "answering"
    /\ Commit([page EXCEPT !.userInput = handleClear(PadValue(page), FALSE)],
              quiz)

\* Enter or the submit button: NumberPad.handleSubmit calls the page's
\* handleSubmit of the pad's last render, which returns without a current
\* problem, outside 'answering' and on an empty input as that render saw
\* them, else submits parseInt(userInput).
handleSubmitPage ==
    /\ page.view = "answering"
    /\ handleSubmit(PadValue(page), FALSE)
    /\ Len(quiz.answers) < MaxPageAnswers
    /\ LET answer == parseInt(PadValue(page))
           correct == submitAnswerReturns(quiz, answer)
       IN Commit([page EXCEPT !.lastAnswerCorrect = correct,
                              !.flowState = "showing-solution",
                              !.nexts = 0],
                 submitAnswerSets(quiz, answer))

\* The exit of the leaving child of the main AnimatePresence has ended: the
\* child is unmounted and the rendered one mounts.
ExitComplete ==
    /\ page.route = "/quiz"
    /\ page.leaving
    /\ Commit([page EXCEPT !.view = "none", !.leaving = FALSE], quiz)

\* The run of the page's VerticalCalculation calls onComplete:
\* handleAnimationComplete sets 'celebrating'.  The run starts with a delay
\* of at least 300 ms (600 ms x speed), set after every 300 ms timer of an
\* earlier instance: those timers have fired by then.
handleAnimationComplete ==
    /\ page.route = "/quiz"
    /\ page.animation = "running"
    /\ page.stale = {}
    /\ Commit([page EXCEPT !.flowState = "celebrating",
                           !.animation = "returned"],
              quiz)

\* The Celebration's timer (set while show, i.e. flow state 'celebrating')
\* calls handleCelebrationComplete: 'transitioning', input cleared, and the
\* 300 ms timer set.
handleCelebrationComplete ==
    /\ page.route = "/quiz"
    /\ Rendered(quiz)
    /\ page.flowState = "celebrating"
    /\ Commit([page EXCEPT !.flowState = "transitioning",
                           !.userInput = <<>>,
                           !.pending = TRUE],
              quiz)

\* The 300 ms timer of the mounted instance: nextProblem();
\* setFlowState('answering').
TransitionTimer ==
    /\ page.route = "/quiz"
    /\ page.pending
    /\ quiz.mode = "unlimited" => quiz.currentIndex < MaxIndex
    /\ \E q2 \in nextProblemSets(quiz) :
         Commit([page EXCEPT !.flowState = "answering",
                             !.pending = FALSE,
                             !.nexts = @ + 1],
                q2)

\* The 300 ms timer of unmounted instance i: nextProblem(); its
\* setFlowState has no component to act on.
StaleTimer(i) ==
    /\ i \in page.stale
    /\ quiz.mode = "unlimited" => quiz.currentIndex < MaxIndex
    /\ \E q2 \in nextProblemSets(quiz) :
         Commit([page EXCEPT !.stale = @ \ {i},
                             !.nexts = @ + 1],
                q2)

\* handleBack: the Back button of the header (by pointer, or by keyboard
\* when the exit dialog covers it).
handleBack ==
    /\ page.route = "/quiz"
    /\ Rendered(quiz)
    /\ IF /\ page.flowState = "answering"
          /\ (quiz.currentIndex > 0 \/ quiz.totalAnswered > 0)
       THEN Commit([page EXCEPT !.showExitConfirm = TRUE], quiz)
       ELSE Commit(Leave(page, "/", 0), initialState)

\* confirmExit: the Leave button of the exit dialog.
confirmExit ==
    /\ page.route = "/quiz"
    /\ page.dialog
    /\ Commit(Leave(page, "/", 0), initialState)

\* The Stay button of the exit dialog, or a click on its backdrop:
\* setShowExitConfirm(false).
StayInQuiz ==
    /\ page.route = "/quiz"
    /\ page.dialog
    /\ Commit([page EXCEPT !.showExitConfirm = FALSE], quiz)

\* The exit of the dialog has ended: it is unmounted.
DialogExitComplete ==
    /\ page.route = "/quiz"
    /\ page.dialog
    /\ ~page.showExitConfirm
    /\ Commit([page EXCEPT !.dialog = FALSE], quiz)

\* The Home button of a standard quiz: navigate('/'), the store is kept.
GoHome ==
    /\ page.route = "/quiz"
    /\ Rendered(quiz)
    /\ quiz.mode # "unlimited"
    /\ Commit(Leave(page, "/", page.session), quiz)

\* handleEndSession: the End button of an unlimited quiz (enabled while
\* answering).
handleEndSession ==
    /\ page.route = "/quiz"
    /\ Rendered(quiz)
    /\ quiz.mode = "unlimited"
    /\ page.flowState = "answering"
    /\ Commit(Leave(page, "/results", page.session),
              endUnlimitedSessionSets(quiz))

\* The effect on isComplete of a standard quiz: navigate('/results') after
\* 500 ms.
NavigateResults ==
    /\ page.route = "/quiz"
    /\ quiz.isComplete
    /\ quiz.mode # "unlimited"
    /\ Commit(Leave(page, "/results", page.session), quiz)

\* Does ResultsPage render in store state q.  Its list of answers reads
\* result.problem.id, and getResults pairs the answers of an unlimited
\* session with problems[index]: an answer beyond the problems has no
\* problem, the render throws and, with no error boundary, the application
\* is unmounted.  In standard mode the list follows the problems.
ResultsRenders(q) ==
    q.mode = "unlimited" => Len(q.answers) <= Len(q.problems)

\* ResultsPage.handleGoHome: resetQuiz(); navigate('/').
handleGoHome ==
    /\ page.route = "/results"
    /\ ResultsRenders(quiz)
    /\ Commit([page EXCEPT !.route = "/", !.session = 0], initialState)

\* ResultsPage.handleTryAgain: resetQuiz(); navigate to the quiz of the same
\* level and mode, whose mount effect starts it.
handleTryAgain ==
    /\ page.route = "/results"
    /\ ResultsRenders(quiz)
    /\ page.instance < MaxPages
    /\ quiz.level # "null"
    /\ \E q2 \in startQuizSets(quiz.level, questionsPerQuiz, quiz.mode) :
         Commit(NewPage(page), q2)

\* SpecPage: the quiz page, the results page and the store behind them, for
\* up to MaxPages visits of the quiz of level add-sub-10 in either mode,
\* with the default question count or the smallest the settings offer, keys
\* 2, backspace, Escape and Enter, and up to MaxPageAnswers answers per quiz.
NextPage ==
    \/ \E count \in PageCounts :
         page.route = "/" /\ page.instance = 0 /\ setQuestionsPerQuiz(count)
    \/ \E modeParam \in {"standard", "unlimited"} : PageMount(modeParam)
    \/ \E num \in PageDigits : PageNumber(num)
    \/ PageBackspace
    \/ PageClear
    \/ handleSubmitPage
    \/ ExitComplete
    \/ handleAnimationComplete
    \/ handleCelebrationComplete
    \/ TransitionTimer
    \/ \E i \in 1..MaxPages : StaleTimer(i)
    \/ handleBack
    \/ confirmExit
    \/ StayInQuiz
    \/ DialogExitComplete
    \/ GoHome
    \/ handleEndSession
    \/ NavigateResults
    \/ handleGoHome
    \/ handleTryAgain

SpecPage == InitGen /\ [][NextPage]_vars

(***************************************************************************)
(* Properties                                                              *)
(***************************************************************************)
RECURSIVE Pow10(_)
Pow10(n) == IF n = 0 THEN 1 ELSE 10 * Pow10(n - 1)

\* The number whose decimal digits, low to high, are the resultDigits of cols.
RECURSIVE Reconstruct(_)
Reconstruct(cols) ==
    IF cols = <<>> THEN 0
    ELSE cols[Len(cols)].resultDigit * Pow10(Len(cols) - 1)
         + Reconstruct(SubSeq(cols, 1, Len(cols) - 1))

\* The number of decimal digits of n >= 0 (0 has one).
RECURSIVE DigitCount(_)
DigitCount(n) == IF n < 10 THEN 1 ELSE 1 + DigitCount(n \div 10)

\* The sequence of the columns' result digits, ones first.
ResultDigitsOf(cols) == [i \in 1..Len(cols) |-> cols[i].resultDigit]

\* C1: for operand1 >= operand2 >= 0 the subtraction pass ends with a final
\* borrow of 0, and its result digits read low-to-high as a decimal number
\* are operand1 - operand2.
C1_SubtractionReconstructs ==
    (memo # NoMemo /\ problem.operation = "subtraction") =>
        /\ ~memo.columns[Len(memo.columns)].needsBorrow
        /\ Reconstruct(memo.columns) = problem.operand1 - problem.operand2

\* A three-column subtraction whose borrow runs through two columns (100 - 1).
C1_Witness ==
    /\ memo # NoMemo
    /\ problem.operation = "subtraction"
    /\ Len(memo.columns) = 3
    /\ memo.columns[1].needsBorrow
    /\ memo.columns[2].needsBorrow

\* C2: for non-negative operands the addition pass's result digits read
\* low-to-high are operand1 + operand2, and the last column's carryOut is 0
\* iff the sum has no digit beyond the width.
C2_AdditionReconstructs ==
    (memo # NoMemo /\ problem.operation = "addition") =>
        /\ Reconstruct(memo.columns) = problem.operand1 + problem.operand2
        /\ (memo.columns[Len(memo.columns)].carryOut = 0
            <=> DigitCount(problem.operand1 + problem.operand2)
                  <= memo.maxDigits)

\* An addition whose sum is one digit longer than both operands, reached by
\* a carry out of the operands' highest place (99 + 1, 7 + 5, ...).
C2_Witness ==
    /\ memo # NoMemo
    /\ problem.operation = "addition"
    /\ memo.maxDigits > DigitCount(problem.operand1)
    /\ memo.maxDigits > DigitCount(problem.operand2)
    /\ memo.columns[memo.maxDigits - 1].carryOut = 1

\* Does column c (0-based) of the displayed problem carry or borrow.
ColumnCarries(c) ==
    IF problem.operation = "addition"
    THEN memo.columns[c + 1].carryOut > 0
    ELSE memo.columns[c + 1].needsBorrow

\* C3: in an uninterrupted run the observable (currentColumn, phase) goes
\* through the columns 0..width-1 in increasing order and, in each column,
\* highlight, calc, carry, write -- carry entered iff the column carries
\* (addition: carryOut > 0; subtraction: needsBorrow) and skipped otherwise --
\* and after the last column's write the run is done.
C3_PhaseOrder ==
    [][ \/ UNCHANGED <<currentColumn, phase, isDone>>
        \/ /\ ~isDone /\ ~isDone'
           /\ \/ /\ currentColumn = -1
                 /\ currentColumn' = 0 /\ phase' = "highlight"
              \/ /\ currentColumn >= 0 /\ currentColumn' = currentColumn
                 /\ \/ phase = "highlight" /\ phase' = "calc"
                    \/ /\ phase = "calc"
                       /\ phase' = IF ColumnCarries(currentColumn)
                                   THEN "carry" ELSE "write"
                    \/ phase = "carry" /\ phase' = "write"
              \/ /\ phase = "write"
                 /\ currentColumn + 1 < memo.maxDigits
                 /\ currentColumn' = currentColumn + 1
                 /\ phase' = "highlight"
        \/ /\ ~isDone /\ isDone'
           /\ phase = "write"
           /\ currentColumn + 1 = memo.maxDigits
           /\ UNCHANGED <<currentColumn, phase>>
      ]_vars

\* A finished run over three columns, with a column that carried or borrowed
\* and one that did not.
C3_Witness ==
    /\ isDone
    /\ Len(runs) = 1
    /\ runs[1].completions = 1
    /\ memo.maxDigits = 3
    /\ currentColumn = 2
    /\ \E c, d \in 0..2 : ColumnCarries(c) /\ ~ColumnCarries(d)

\* C4: when isDone becomes true, writtenDigits is the sequence of the
\* decomposed columns' result digits, ones first (one element per column).
C4_WrittenDigitsAtDone ==
    [][ (~isDone /\ isDone') =>
            writtenDigits' = ResultDigitsOf(memo.columns) ]_vars

\* Run r took the step: it passed an await (its stage changed, or its speech
\* promise resolved and its timer was set).
Stepped(r) ==
    /\ r \in DOMAIN runs
    /\ DOMAIN runs' = DOMAIN runs
    /\ \/ runs'[r].stage # runs[r].stage
       \/ runs[r].wait \in {"playing", "interrupted"}
          /\ runs'[r].wait = "timer"

\* C5: once a run is cancelled (unmount, or a new run started by a changed
\* effect dependency) it changes none of currentColumn, phase,
\* writtenDigits, isDone, starts no speech and does not call onComplete,
\* whatever the interleaving of its timers and speech events with the new
\* run.
C5_CancelledRunInert ==
    [][ \A r \in DOMAIN runs :
          (runs[r].cancelled /\ Stepped(r)) =>
              /\ UNCHANGED <<currentColumn, phase, writtenDigits, isDone>>
              /\ runs'[r].narr # "speaking"
              /\ runs'[r].completions = runs[r].completions
              /\ \A q \in DOMAIN runs : q # r => runs'[q] = runs[q] ]_vars

\* A cancelled run, stopped in the middle of a column, still has a timer or
\* a speech event pending while a newer run has started to animate.
C5_Witness ==
    \E r \in DOMAIN runs :
        /\ r < Len(runs)
        /\ runs[r].cancelled
        /\ runs[r].stage \in {"calc", "carry", "write"}
        /\ runs[r].wait \in {"timer", "interrupted"}
        /\ ~runs[Len(runs)].cancelled
        /\ runs[Len(runs)].stage \in {"highlight", "calc"}

\* C6: every started run that is not cancelled eventually sets isDone and
\* calls onComplete, also when the synthesizer delivers neither end nor error.
C6_EventuallyCompletes ==
    (Len(runs) = 1) ~> (isDone /\ runs[1].completions = 1)

\* C7: within one run onComplete is called at most once, and only after
\* isDone was set and the completion announcement's wait has finished.
C7_OnCompleteOneShot ==
    [][ \A r \in DOMAIN runs :
          (r \in DOMAIN runs' /\ runs'[r].completions # runs[r].completions)
            => /\ runs[r].completions = 0
               /\ runs'[r].completions = 1
               /\ runs[r].stage = "completion"
               /\ runs[r].wait = "timer"
               /\ runs'[r].stage = "returned"
               /\ isDone ]_vars

\* A run has called onComplete after an earlier run of the same component
\* was cancelled.
C7_Witness ==
    /\ Len(runs) = 2
    /\ runs[1].cancelled
    /\ runs[2].completions = 1

\* C8: a new problem (problem.id changes) resets the state to
\* currentColumn = -1, phase = highlight, writtenDigits = empty,
\* isDone = false and stops the narration in flight, and no timer or speech
\* event of a run of another problem changes the state afterwards.
C8_NewProblemResets ==
    [][ /\ problem'.id # problem.id =>
             /\ currentColumn' = -1
             /\ phase' = "highlight"
             /\ writtenDigits' = <<>>
             /\ isDone' = FALSE
             /\ \A r \in DOMAIN runs' : runs'[r].wait # "playing"
        /\ \A r \in DOMAIN runs :
             (runs[r].prob.id # problem.id /\ Stepped(r)) =>
                 UNCHANGED <<currentColumn, phase, writtenDigits, isDone>>
      ]_vars

\* The run of the previous problem, cancelled after it had written a digit,
\* still has a timer or speech event pending while the new problem's run has
\* entered its first column.
C8_Witness ==
    /\ Len(runs) = 2
    /\ runs[1].prob.id # problem.id
    /\ runs[1].stage \in {"write", "completion"}
    /\ runs[1].wait \in {"timer", "interrupted"}
    /\ runs[2].prob.id = problem.id
    /\ currentColumn = 0
    /\ writtenDigits = <<>>

\* C9: with narration on, a non-empty text and an utterance that plays for
\* D ms, the phase's dwell is max(nominal, D + 200): the phase advances
\* neither before the speech has finished nor before the nominal duration.
C9_DwellWithNarration ==
    \A r \in DOMAIN runs :
        (runs[r].wait = "timer" /\ runs[r].narr = "played") =>
            LET nominal == MinWait(runs[r].stage, runs[r].speed)
                D == runs[r].elapsed
            IN /\ Dwell(runs[r]) = Max2(nominal, D + 200)
               /\ Dwell(runs[r]) >= nominal
               /\ Dwell(runs[r]) >= D

\* A calc phase whose utterance outlasted the nominal duration.
C9_Witness ==
    \E r \in DOMAIN runs :
        /\ runs[r].wait = "timer"
        /\ runs[r].narr = "played"
        /\ runs[r].stage = "calc"
        /\ runs[r].elapsed + 200 > MinWait("calc", runs[r].speed)

\* C10: with the narration setting on and no synthesizer (or the manager
\* disabled), the phase proceeds on the timer alone: its dwell is the nominal
\* duration, not shorter.
C10_NoSynthDwellNominal ==
    \A r \in DOMAIN runs :
        (runs[r].wait = "timer" /\ runs[r].narr = "estimated") =>
            Dwell(runs[r]) >= MinWait(runs[r].stage, runs[r].speed)

\* The phase factor of the dwell contract, in tenths.
PhaseFactor(ph) ==
    CASE ph = "highlight" -> 10 [] ph = "calc" -> 15 [] ph = "carry" -> 12
      [] ph = "write" -> 8

\* The speed multiplier of the dwell contract, in tenths.
SpeedFactor(speed) ==
    CASE speed = "slow" -> 15 [] speed = "normal" -> 10 [] speed = "fast" -> 5

Phases == {"highlight", "calc", "carry", "write"}

\* 600 ms x speed x phaseFactor
NominalDwell(ph, speed) == (600 * SpeedFactor(speed) * PhaseFactor(ph)) \div 100

\* C11: with narration disabled or an empty phase text, a phase lasts exactly
\* 600 ms x speed x phaseFactor (speed: slow 1.5, normal 1, fast 0.5; factor:
\* highlight 1, calc 1.5, carry 1.2, write 0.8), so that at speed fast it
\* lasts exactly half of what it lasts at speed normal.
C11_NominalDwell ==
    \A r \in DOMAIN runs :
        (runs[r].stage \in Phases /\ runs[r].wait = "timer"
         /\ runs[r].narr = "off") =>
            /\ (600 * SpeedFactor(runs[r].speed) * PhaseFactor(runs[r].stage))
                 % 100 = 0
            /\ Dwell(runs[r]) = NominalDwell(runs[r].stage, runs[r].speed)
            /\ runs[r].speed = "fast" =>
                  2 * Dwell(runs[r]) = NominalDwell(runs[r].stage, "normal")

\* The write phase of a carrying addition column (its text is empty) at speed
\* fast with the narration setting on: the bare timer of 240 ms is pending.
C11_Witness ==
    \E r \in DOMAIN runs :
        /\ runs[r].speechOn
        /\ runs[r].speed = "fast"
        /\ runs[r].stage = "write"
        /\ runs[r].wait = "timer"
        /\ runs[r].narr = "off"
        /\ Dwell(runs[r]) = 240

\* The nominal dwell of the phases entered for column c of an operation at a
\* speed: highlight, calc, carry when the column carries or borrows, write.
ColumnNominal(operation, c, speed) ==
    NominalDwell("highlight", speed) + NominalDwell("calc", speed)
    + (IF (IF operation = "addition" THEN c.carryOut > 0 ELSE c.needsBorrow)
       THEN NominalDwell("carry", speed) ELSE 0)
    + NominalDwell("write", speed)

\* The sum of the nominal dwells of all phases entered for columns cols.
RECURSIVE PhaseSum(_, _, _)
PhaseSum(operation, cols, speed) ==
    IF cols = <<>> THEN 0
    ELSE ColumnNominal(operation, Head(cols), speed)
         + PhaseSum(operation, Tail(cols), speed)

\* The time from the start of run rn to the end of its pending timer.
TimeAtTimer(rn) == rn.clock + Dwell(rn)

\* C12 as stated: with narration disabled, the time from the start of a run
\* to its completion signal (onComplete) is the sum of the nominal dwells of
\* the phases entered.
C12_TotalIsPhaseSum ==
    \A r \in DOMAIN runs :
        (runs[r].stage = "completion" /\ runs[r].wait = "timer"
         /\ ~runs[r].speechOn) =>
            TimeAtTimer(runs[r])
              = PhaseSum(runs[r].prob.operation,
                         Decompose(runs[r].prob).columns, runs[r].speed)

\* C12 amended: with narration disabled, the time from the start of a run to
\* onComplete is the initial delay (600 ms x speed), plus the sum of the
\* nominal dwells of the phases entered, plus the completion announcement's
\* dwell (600 ms x speed): a function of the problem and the speed.
C12_TotalDuration ==
    \A r \in DOMAIN runs :
        (runs[r].stage = "completion" /\ runs[r].wait = "timer"
         /\ ~runs[r].speechOn) =>
            TimeAtTimer(runs[r])
              = 60 * SpeedFactor(runs[r].speed)
                + PhaseSum(runs[r].prob.operation,
                           Decompose(runs[r].prob).columns, runs[r].speed)
                + 60 * SpeedFactor(runs[r].speed)

\* A three-column run without narration, with a column that borrows and one
\* that does not, waits out its completion announcement.
C12_Witness ==
    \E r \in DOMAIN runs :
        /\ runs[r].stage = "completion"
        /\ runs[r].wait = "timer"
        /\ ~runs[r].speechOn
        /\ runs[r].speed = "slow"
        /\ Len(memo.columns) = 3
        /\ \E c, d \in 0..2 : ColumnCarries(c) /\ ~ColumnCarries(d)

\* C13: whenever the write phase of column c is shown, writtenDigits already
\* ends with column c's resultDigit; in an uninterrupted run (the first run
\* of a mounted component) it then has c + 1 elements, and c elements in the
\* phases highlight, calc, carry of column c.
C13_WriteSynchronous ==
    (mounted /\ currentColumn >= 0) =>
        /\ phase = "write" =>
              /\ writtenDigits # <<>>
              /\ writtenDigits[Len(writtenDigits)]
                   = memo.columns[currentColumn + 1].resultDigit
        /\ Len(runs) = 1 =>
              Len(writtenDigits) = IF phase = "write" THEN currentColumn + 1
                                   ELSE currentColumn

\* The write phase of the second column, reached through a carry phase, is
\* shown with both digits written.
C13_Witness ==
    /\ mounted /\ ~isDone
    /\ Len(runs) = 1
    /\ phase = "write"
    /\ currentColumn = 1
    /\ Len(writtenDigits) = 2
    /\ ColumnCarries(0)

\* Sequence s is an initial segment of sequence t.
IsPrefix(s, t) == Len(s) <= Len(t) /\ SubSeq(t, 1, Len(s)) = s

\* C14: while one problem is shown by a mounted component, currentColumn
\* never decreases and every new value of writtenDigits extends the previous
\* one, under any sequence of timer, speech and prop-change events.
C14_Monotonic ==
    [][ (mounted /\ mounted' /\ problem'.id = problem.id) =>
            /\ currentColumn' >= currentColumn
            /\ IsPrefix(writtenDigits, writtenDigits') ]_vars

\* C15: isDone becomes true only after the last column's write phase, and
\* while it is true and the same problem is shown by the mounted component,
\* currentColumn, phase and writtenDigits do not change and isDone stays true.
C15_DoneIsTerminal ==
    [][ /\ (~isDone /\ isDone') =>
              /\ phase = "write"
              /\ currentColumn + 1 = memo.maxDigits
              /\ UNCHANGED <<currentColumn, phase, writtenDigits>>
        /\ (isDone /\ mounted /\ mounted' /\ problem'.id = problem.id) =>
              /\ isDone'
              /\ UNCHANGED <<currentColumn, phase, writtenDigits>> ]_vars

\* C16: every problem generateProblem returns for a level with maxNumber m
\* has operand1 and operand2 in 0..m; an addition has answer = operand1 +
\* operand2 <= m; a subtraction has operand1 >= operand2 and answer =
\* operand1 - operand2 >= 0; with m = 0 the problem is 0 op 0, and a problem
\* is returned for every configuration.
C16_GeneratedProblemValid ==
    /\ gen.pc = "idle" =>
          \A config \in GenConfigs : ENABLED GenerateOne(config)
    /\ gen.pc = "problem" =>
          LET p == gen.problems[1]
              m == gen.config.maxNumber
          IN /\ p.operand1 \in 0..m
             /\ p.operand2 \in 0..m
             /\ p.operation \in getRandomOperation(gen.config.operations)
             /\ p.operation = "addition" =>
                   /\ p.answer = p.operand1 + p.operand2
                   /\ p.answer <= m
             /\ p.operation = "subtraction" =>
                   /\ p.operand1 >= p.operand2
                   /\ p.answer = p.operand1 - p.operand2
                   /\ p.answer >= 0
             /\ m = 0 => (p.operand1 = 0 /\ p.operand2 = 0)

\* An addition of level add-sub-100 whose sum is exactly maxNumber.
C16_Witness ==
    /\ gen.pc = "problem"
    /\ gen.config = LEVEL_CONFIGS("add-sub-100")
    /\ gen.problems[1].operation = "addition"
    /\ gen.problems[1].operand2 > 0
    /\ gen.problems[1].answer = 100

\* What is left of a generateQuiz call: the attempts and problems still
\* possible, and the loops still to leave.
QuizVariant(g) ==
    (MaxAttempts(g.count) - g.attempts) + (g.count - Len(g.problems))
    + (CASE g.pc = "loop" -> 2 [] g.pc = "fill" -> 1 [] OTHER -> 0)

\* p is a problem of a level with maxNumber m: operands in 0..m and, for a
\* subtraction, a non-negative answer.
ValidFor(p, m) ==
    /\ p.operand1 \in 0..m
    /\ p.operand2 \in 0..m
    /\ p.operation = "subtraction" => p.answer >= 0

\* C17: generateQuiz(level, count) terminates for every count >= 0 whatever
\* the random draws: while it runs it can always take a step, it makes at most
\* count * 10 attempts, and every step decreases a non-negative measure; it
\* returns exactly count problems, each with operands in 0..maxNumber and,
\* for a subtraction, answer >= 0.
C17_QuizTerminates ==
    /\ [](gen.pc \in {"loop", "fill"} =>
            /\ ENABLED NextQuiz
            /\ gen.attempts <= gen.count * 10
            /\ QuizVariant(gen) >= 0)
    /\ [][gen.pc \in {"loop", "fill"} =>
            QuizVariant(gen') < QuizVariant(gen)]_vars
    /\ [](gen.pc = "done" =>
            /\ Len(gen.problems) = gen.count
            /\ \A i \in 1..Len(gen.problems) :
                  ValidFor(gen.problems[i], gen.config.maxNumber))

\* A quiz of MaxCount problems returned after all its attempts were used up
\* and the rest was filled in.
C17_Witness ==
    /\ gen.pc = "done"
    /\ gen.count = MaxCount
    /\ gen.attempts = MaxCount * 10
    /\ gen.checked < gen.count
    /\ Len(gen.problems) = MaxCount

\* C18: in the list generateQuiz returns no two adjacent problems have the
\* same operand1, operand2 and operation.
C18_NoAdjacentDuplicates ==
    gen.pc = "done" =>
        \A i \in 1..(Len(gen.problems) - 1) :
            ~isDuplicateProblem(gen.problems[i], gen.problems[i + 1])

\* Problem i of list ps differs from each of its up to 3 predecessors.
DiffersFromPredecessors(ps, i) ==
    \A j \in Max2(1, i - 3)..(i - 1) :
        ~(/\ ps[j].operand1 = ps[i].operand1
          /\ ps[j].operand2 = ps[i].operand2
          /\ ps[j].operation = ps[i].operation)

\* C19: every problem accepted in the checked loop differs (operand1,
\* operand2, operation) from each of the up to 3 problems accepted before it,
\* so a result whose count problems were all accepted within count * 10
\* attempts has every problem differing from its up to 3 predecessors; and
\* problems are appended unchecked only after count * 10 attempts were made.
C19_DuplicateWindow ==
    /\ gen.checked <= Len(gen.problems)
    /\ \A i \in 1..gen.checked : DiffersFromPredecessors(gen.problems, i)
    /\ (gen.pc = "done" /\ gen.checked = gen.count) =>
          \A i \in 1..Len(gen.problems) :
              DiffersFromPredecessors(gen.problems, i)
    /\ Len(gen.problems) > gen.checked =>
          /\ gen.pc \in {"fill", "done"}
          /\ gen.attempts = gen.count * 10

\* A quiz of MaxCount problems, all accepted in the checked loop after some
\* candidates were rejected, whose last problem repeats none of the three
\* before it.
C19_Witness ==
    /\ gen.pc = "done"
    /\ gen.count = MaxCount
    /\ gen.checked = MaxCount
    /\ gen.attempts > MaxCount
    /\ gen.attempts < MaxCount * 10

\* C20: every column of an addition has op1Digit + op2Digit + carryIn =
\* carryOut * 10 + resultDigit with op1Digit, op2Digit, resultDigit in 0..9
\* and carryIn, carryOut in {0, 1}; the first column's carryIn is 0 and each
\* further column's carryIn is the carryOut of the column before it.
C20_AdditionColumnInvariant ==
    (memo # NoMemo /\ problem.operation = "addition") =>
        /\ memo.columns[1].carryIn = 0
        /\ \A i \in 1..Len(memo.columns) :
              LET c == memo.columns[i]
              IN /\ c.op1Digit + c.op2Digit + c.carryIn
                      = c.carryOut * 10 + c.resultDigit
                 /\ c.op1Digit \in 0..9
                 /\ c.op2Digit \in 0..9
                 /\ c.resultDigit \in 0..9
                 /\ c.carryIn \in {0, 1}
                 /\ c.carryOut \in {0, 1}
                 /\ i > 1 => c.carryIn = memo.columns[i - 1].carryOut

\* An addition whose carry runs through two columns with the largest column
\* sum, 9 + 9 + 1 (999 + 999).
C20_Witness ==
    /\ memo # NoMemo
    /\ problem.operation = "addition"
    /\ Len(memo.columns) >= 3
    /\ memo.columns[2].carryIn = 1
    /\ memo.columns[2].sum = 19
    /\ memo.columns[3].carryIn = 1

\* C21: every column of a subtraction has needsBorrow iff op1Digit - borrowIn
\* < op2Digit, and resultDigit = (op1Digit - borrowIn + 10 if needsBorrow,
\* else op1Digit - borrowIn) - op2Digit, in 0..9; the first column's borrowIn
\* is 0 and each further column's borrowIn is 1 iff the column before it
\* needs a borrow (0 otherwise).
C21_SubtractionColumnInvariant ==
    (memo # NoMemo /\ problem.operation = "subtraction") =>
        /\ memo.columns[1].borrowIn = 0
        /\ \A i \in 1..Len(memo.columns) :
              LET c == memo.columns[i]
                  effective == c.op1Digit - c.borrowIn
              IN /\ c.needsBorrow <=> effective < c.op2Digit
                 /\ c.resultDigit
                      = (IF c.needsBorrow THEN effective + 10 ELSE effective)
                        - c.op2Digit
                 /\ c.resultDigit \in 0..9
                 /\ c.borrowIn \in {0, 1}
                 /\ i > 1 =>
                      (c.borrowIn = 1 <=> memo.columns[i - 1].needsBorrow)

\* A subtraction in which a column with op1Digit 0 and borrowIn 1 (effective
\* digit -1) borrows again (100 - 1, 101 - 2, ...).
C21_Witness ==
    /\ memo # NoMemo
    /\ problem.operation = "subtraction"
    /\ \E i \in 1..Len(memo.columns) :
          /\ memo.columns[i].op1Digit = 0
          /\ memo.columns[i].borrowIn = 1
          /\ memo.columns[i].needsBorrow
          /\ memo.columns[i].resultDigit = 9

\* The i-th decimal digit (i = 1 for the ones) of n >= 0.
DigitAt(n, i) == (n \div Pow10(i - 1)) % 10

\* C22: the number of columns is max(digitCount(operand1),
\* digitCount(operand2), digitCount(answer)) and at least 1; 7 + 5 has 2
\* columns, column 0 with carryIn 0, sum 12, resultDigit 2, carryOut 1, whose
\* result digits reconstruct to 12.
C22_Width ==
    memo # NoMemo =>
        /\ Len(memo.columns)
             = Max3(DigitCount(problem.operand1), DigitCount(problem.operand2),
                    DigitCount(problem.answer))
        /\ memo.maxDigits = Len(memo.columns)
        /\ Len(memo.columns) >= 1
        /\ (/\ problem.operation = "addition"
            /\ problem.operand1 = 7 /\ problem.operand2 = 5) =>
              /\ Len(memo.columns) = 2
              /\ memo.columns[1].carryIn = 0
              /\ memo.columns[1].sum = 12
              /\ memo.columns[1].resultDigit = 2
              /\ memo.columns[1].carryOut = 1
              /\ Reconstruct(memo.columns) = 12

\* 7 + 5 decomposed: the width 2 comes from the answer alone.
C22_Witness ==
    /\ memo # NoMemo
    /\ problem.operation = "addition"
    /\ problem.operand1 = 7 /\ problem.operand2 = 5
    /\ memo.maxDigits = 2
    /\ DigitCount(problem.operand1) = 1 /\ DigitCount(problem.operand2) = 1

\* C23: beyond an operand's own digit count the displayed digit arrays hold
\* the padding sentinel while the column arithmetic uses 0, and within it
\* both hold the operand's digit; column i's resultDigit is the i-th digit of
\* the answer where the padded result row has a digit and 0 where the row is
\* padded.
C23_Padding ==
    memo # NoMemo =>
        \A i \in 1..memo.maxDigits :
            LET c == memo.columns[i]
            IN /\ IF i <= DigitCount(problem.operand1)
                  THEN /\ memo.op1Digits[i] = DigitAt(problem.operand1, i)
                       /\ c.op1Digit = DigitAt(problem.operand1, i)
                  ELSE /\ memo.op1Digits[i] = null
                       /\ c.op1Digit = 0
               /\ IF i <= DigitCount(problem.operand2)
                  THEN /\ memo.op2Digits[i] = DigitAt(problem.operand2, i)
                       /\ c.op2Digit = DigitAt(problem.operand2, i)
                  ELSE /\ memo.op2Digits[i] = null
                       /\ c.op2Digit = 0
               /\ IF i <= DigitCount(problem.answer)
                  THEN /\ memo.resultDigits[i] = DigitAt(problem.answer, i)
                       /\ c.resultDigit = memo.resultDigits[i]
                  ELSE /\ memo.resultDigits[i] = null
                       /\ c.resultDigit = 0

\* A three-column subtraction with a one-digit answer and a shorter second
\* operand (100 - 99): the result row and the second operand are padded.
C23_Witness ==
    /\ memo # NoMemo
    /\ problem.operation = "subtraction"
    /\ memo.maxDigits = 3
    /\ memo.op2Digits[3] = null
    /\ memo.resultDigits[2] = null
    /\ memo.resultDigits[3] = null
    /\ memo.columns[3].resultDigit = 0

\* C24: the decomposition returns an ordinary column sequence for a
\* subtraction only when the final borrow is 0; operands violating
\* operand1 >= operand2 yield a defect signal instead.
C24_ViolationSurfaced ==
    (memo # NoMemo /\ problem.operation = "subtraction") =>
        ~(/\ Len(memo.columns) = memo.maxDigits
          /\ memo.columns[Len(memo.columns)].needsBorrow)

\* The utterances that give the instruction 'Write <resultDigit> in the
\* <place> place' for column c: alone, or combined with the carry.
WriteInstructions(c) ==
    LET instruction == "Write " \o S(c.resultDigit) \o " in the "
                       \o c.placeName \o " place"
    IN {instruction \o "."}
       \cup (IF "carryOut" \in DOMAIN c
             THEN {instruction \o ", and carry " \o S(c.carryOut)
                   \o " to the next place."}
             ELSE {})

\* The entries of run rn's utterance log that give column col's write
\* instruction.
WriteUtterances(rn, col) ==
    {i \in DOMAIN rn.spoken :
        /\ rn.spoken[i].col = col
        /\ rn.spoken[i].text \in WriteInstructions(RunColumns(rn)[col + 1])}

\* C25: in a narrated run the write instruction of a column is spoken at
\* most once, and exactly once when the column is finished: in the carry
\* phase for an addition column with carryOut > 0 (whose write phase starts
\* no utterance), in the write phase for an addition column with carryOut =
\* 0 and for every subtraction column.
C25_WriteSpokenOnce ==
    \A r \in DOMAIN runs :
        LET rn == runs[r]
        IN (rn.speechOn /\ synth = "ok" /\ Truthy(mgrEnabled)
            /\ rn.stage \in Phases \cup {"completion"}) =>
              \A col \in 0..(RunMaxDigits(rn) - 1) :
                  LET c == RunColumns(rn)[col + 1]
                      inCarry == /\ rn.prob.operation = "addition"
                                 /\ c.carryOut > 0
                      finished == \/ rn.stage = "completion"
                                  \/ col < rn.col
                                  \/ /\ col = rn.col
                                     /\ \/ rn.stage = "write"
                                        \/ inCarry /\ rn.stage = "carry"
                  IN /\ Cardinality(WriteUtterances(rn, col))
                          = IF finished THEN 1 ELSE 0
                     /\ \A i \in WriteUtterances(rn, col) :
                           rn.spoken[i].stage
                             = IF inCarry THEN "carry" ELSE "write"
                     /\ inCarry =>
                           ~\E i \in DOMAIN rn.spoken :
                               /\ rn.spoken[i].col = col
                               /\ rn.spoken[i].stage = "write"

\* A narrated three-column run has finished its columns, one of them an
\* addition column with a carry and one without.
C25_Witness ==
    \E r \in DOMAIN runs :
        /\ runs[r].speechOn /\ synth = "ok" /\ Truthy(mgrEnabled)
        /\ runs[r].stage = "completion"
        /\ runs[r].prob.operation = "addition"
        /\ RunMaxDigits(runs[r]) = 3
        /\ \E c, d \in 1..3 : /\ RunColumns(runs[r])[c].carryOut > 0
                               /\ RunColumns(runs[r])[d].carryOut = 0
        /\ Len(runs[r].spoken) >= 9

\* The runs whose utterance the synthesizer is playing.
Playing == {r \in DOMAIN runs : runs[r].wait = "playing"}

\* C26: at any time at most one utterance is playing: an utterance that is
\* started, or a stop, leaves no earlier utterance playing, whatever the
\* interleaving of cancelled runs, new runs and settings toggles.
C26_NarrationExclusive == Cardinality(Playing) <= 1

\* A cancelled run still awaits its stopped utterance while the run that
\* replaced it is playing one of its own.
C26_Witness ==
    /\ Len(runs) = 2
    /\ runs[1].cancelled /\ runs[1].wait = "interrupted"
    /\ runs[2].wait = "playing"

\* C27: while speech is disabled no utterance is playing (none is started,
\* and disabling stops the one in flight), and after toggleSpeech,
\* updateSetting('speechEnabled', v) and resetSettings the speech manager's
\* enabled flag equals the store's speechEnabled.
C27_MuteHonoured ==
    /\ ~Truthy(mgrEnabled) => Playing = {}
    /\ mgrEnabled = speechEnabled

\* C28: requiresCarry is the ones-place indicator -- for addition the ones
\* digits sum to 10 or more, for subtraction the ones digit of operand1 is
\* less than that of operand2 -- and it equals whether column 0 of the
\* decomposition enters the carry phase.
C28_RequiresCarryIsOnesPlace ==
    memo # NoMemo =>
        LET ones1 == DigitAt(problem.operand1, 1)
            ones2 == DigitAt(problem.operand2, 1)
        IN /\ problem.requiresCarry
                = IF problem.operation = "addition"
                  THEN ones1 + ones2 >= 10
                  ELSE ones1 < ones2
           /\ problem.requiresCarry
                = hasCarryOrBorrow(problem.operation, memo.columns[1])

\* requiresCarry is false although a higher column carries or borrows.
C28_Witness ==
    /\ memo # NoMemo
    /\ ~problem.requiresCarry
    /\ \E i \in 2..Len(memo.columns) :
          hasCarryOrBorrow(problem.operation, memo.columns[i])

\* A standard quiz of n >= 1 problems is in progress or complete.
StandardQuiz ==
    /\ quiz.level # "null"
    /\ quiz.mode = "standard"
    /\ Len(quiz.problems) >= 1

\* C29: in a standard quiz of n >= 1 problems 0 <= currentIndex <= n - 1 and
\* getCurrentProblem returns null iff isComplete; nextProblem increments
\* currentIndex by one except at the last index, where it sets isComplete
\* and leaves currentIndex unchanged; isComplete, once true, stays true
\* until startQuiz or resetQuiz.
C29_StandardProgression ==
    /\ [](StandardQuiz =>
            /\ 0 <= quiz.currentIndex
            /\ quiz.currentIndex <= Len(quiz.problems) - 1
            /\ (getCurrentProblem(quiz) = NullProblem) <=> quiz.isComplete)
    /\ [][(StandardQuiz /\ nextProblem) =>
            IF quiz.currentIndex = Len(quiz.problems) - 1
            THEN quiz'.isComplete /\ quiz'.currentIndex = quiz.currentIndex
            ELSE quiz'.currentIndex = quiz.currentIndex + 1]_vars
    /\ [][(quiz.isComplete /\ ~quiz'.isComplete) =>
            \/ resetQuiz
            \/ \E level \in StoreLevels, questionCount \in 0..MaxQuestions,
                  mode \in {"standard", "unlimited"} :
                    startQuiz(level, questionCount, mode)]_vars

\* A standard quiz of three problems was answered and stepped through to
\* its end: it is complete at the last index.
C29_Witness ==
    /\ StandardQuiz
    /\ Len(quiz.problems) = 3
    /\ quiz.currentIndex = 2
    /\ quiz.isComplete
    /\ quiz.problemStartTime = "null"
    /\ quiz.totalAnswered >= 1

\* C30: in an unlimited quiz currentIndex < problems.length with at least 3
\* problems from the current one on, so getCurrentProblem is non-null while
\* the session has not been ended; isComplete becomes true only through
\* endUnlimitedSession.
C30_UnlimitedNeverRunsOut ==
    /\ [](quiz.mode = "unlimited" =>
            /\ quiz.currentIndex < Len(quiz.problems)
            /\ Len(quiz.problems) - quiz.currentIndex >= 3
            /\ ~quiz.isComplete => getCurrentProblem(quiz) # NullProblem)
    /\ [][(/\ quiz.mode = "unlimited" /\ quiz'.mode = "unlimited"
            /\ ~quiz.isComplete /\ quiz'.isComplete) =>
               endUnlimitedSession]_vars

\* An unlimited quiz past its initial batch: at index 5 of 8 problems.
C30_Witness ==
    /\ quiz.mode = "unlimited"
    /\ ~quiz.isComplete
    /\ quiz.currentIndex = InitialBatch
    /\ Len(quiz.problems) = InitialBatch + 3

\* The number of recorded answers of store state q that are correct.
CorrectAnswers(q) ==
    Cardinality({i \in DOMAIN q.answers : q.answers[i].isCorrect})

\* C31: in every reachable store state totalAnswered = answers.length,
\* correctInSession = the number of recorded answers with isCorrect, and
\* correctInSession <= totalAnswered; an accepted submitAnswer appends
\* exactly one answer, whose isCorrect is the value returned: true iff the
\* answer equals the current problem's answer.
C31_CountersConsistent ==
    /\ [](/\ quiz.totalAnswered = Len(quiz.answers)
           /\ quiz.correctInSession = CorrectAnswers(quiz)
           /\ quiz.correctInSession <= quiz.totalAnswered)
    /\ [][\A answer \in StoreAnswers :
            (submitAnswer(answer)
             /\ quiz.currentIndex < Len(quiz.problems)) =>
               /\ Len(quiz'.answers) = Len(quiz.answers) + 1
               /\ SubSeq(quiz'.answers, 1, Len(quiz.answers)) = quiz.answers
               /\ quiz'.answers[Len(quiz'.answers)].userAnswer = answer
               /\ quiz'.answers[Len(quiz'.answers)].isCorrect
                    = submitAnswerReturns(quiz, answer)
               /\ submitAnswerReturns(quiz, answer)
                    = (answer
                       = quiz.problems[quiz.currentIndex + 1].answer)]_vars

\* Two answers were recorded, one correct and one wrong.
C31_Witness ==
    /\ Len(quiz.answers) = 2
    /\ quiz.totalAnswered = 2
    /\ quiz.correctInSession = 1
    /\ \E i, j \in DOMAIN quiz.answers :
          quiz.answers[i].isCorrect /\ ~quiz.answers[j].isCorrect

\* C32: submitAnswer with no current problem (currentIndex >=
\* problems.length) returns false and leaves every field of the store
\* unchanged.
C32_SubmitWithoutProblem ==
    [][\A answer \in StoreAnswers :
        (submitAnswer(answer)
         /\ quiz.currentIndex >= Len(quiz.problems)) =>
           /\ ~submitAnswerReturns(quiz, answer)
           /\ quiz' = quiz]_vars

\* A started quiz with no problems (startQuiz with questionCount 0), on
\* which submitAnswer can be called.
C32_Witness ==
    /\ quiz.level # "null"
    /\ quiz.currentIndex >= Len(quiz.problems)
    /\ ENABLED (\E answer \in StoreAnswers : submitAnswer(answer))

\* C33: in standard mode every problem has at most one recorded answer, also
\* after the quiz is complete: answers.length <= problems.length and
\* answers[i] is the answer submitted while problems[i] was current.
C33_OneAnswerPerProblem ==
    quiz.mode = "standard" =>
        /\ Len(quiz.answers) <= Len(quiz.problems)
        /\ \A i \in DOMAIN quiz.answers :
              /\ i \in DOMAIN quiz.problems
              /\ quiz.answers[i].problemId = quiz.problems[i].id

\* C34: in every reachable store state getResults reports a percentage in
\* 0..100 and correctCount + incorrectCount <= totalProblems; with no
\* problems (standard) or no answers (unlimited) the percentage is 0.
C34_ResultsInRange ==
    LET res == getResults(quiz)
    IN /\ res.percentage \in 0..100
       /\ res.correctCount + res.incorrectCount <= res.totalProblems
       /\ (quiz.mode = "standard" /\ Len(quiz.problems) = 0) =>
             res.percentage = 0
       /\ (quiz.mode = "unlimited" /\ Len(quiz.answers) = 0) =>
             res.percentage = 0

\* C38: questionsPerQuiz is within MIN_QUESTIONS..MAX_QUESTIONS (5..20) in
\* every state the settings actions reach.
C38_QuestionsInRange == questionsPerQuiz \in MIN_QUESTIONS..MAX_QUESTIONS

\* A value of the pad is a decimal numeral: digits only and no leading zero
\* unless it is the single digit 0.
Numeral(value) ==
    /\ \A i \in DOMAIN value : value[i] \in 0..9
    /\ Len(value) >= 2 => value[1] # 0

\* C39: from the empty value, after any presses of digits, backspace and
\* clear the value is empty or a numeral without a leading zero (the single
\* 0 allowed) of at most maxDigits digits; no press changes the value of a
\* disabled pad; onSubmit is called only with a non-empty value on an
\* enabled pad.
C39_PadValue ==
    /\ [](/\ Numeral(pad.value)
          /\ Len(pad.value) <= pad.maxDigits
          /\ pad.forwarded => (pad.value # <<>> /\ ~pad.disabled))
    /\ [][pad.disabled => pad'.value = pad.value]_vars

\* A full two-digit value ending in 0 was typed and the pad then disabled.
C39_Witness ==
    /\ pad.value = <<2, 0>>
    /\ pad.maxDigits = 2
    /\ pad.disabled

\* C40: for every level and every problem the generator returns for it, the
\* answer has at most as many digits as the number pad of that level accepts
\* (4 when maxNumber >= 1000, 3 when maxNumber >= 100, otherwise 2), and the
\* decomposition has at most four columns, each with a named place.
C40_AnswerCanBeTyped ==
    gen.pc = "problem" =>
        LET p == gen.problems[1]
            d == Decompose(p)
        IN /\ Len(getDigits(p.answer)) <= NumberPadMaxDigits(gen.config)
           /\ d.maxDigits <= Len(PLACE_NAMES)
           /\ \A i \in 0..(d.maxDigits - 1) :
                 PlaceName(i) \in {PLACE_NAMES[k] : k \in DOMAIN PLACE_NAMES}

\* 999 + 1 at a level with maxNumber 1000: the answer fills the four digits.
C40_Witness ==
    /\ gen.pc = "problem"
    /\ gen.config.maxNumber = 1000
    /\ gen.problems[1].operation = "addition"
    /\ gen.problems[1].answer = 1000
    /\ gen.problems[1].operand1 = 999

\* C35: once resetQuiz has run and until the next startQuiz the store is in
\* its initial state, and the 300 ms timer an unmounted page instance left
\* behind calls nextProblem only on the quiz that instance started -- never
\* on a reset store or on a quiz started later.
C35_NoStaleTimer ==
    /\ [](page.session = 0 => quiz = initialState)
    /\ [][\A i \in page.stale :
             i \notin page'.stale => page.session = i]_vars

\* The flow states in their order.
FlowNext(flowState) ==
    CASE flowState = "answering" -> "showing-solution"
      [] flowState = "showing-solution" -> "celebrating"
      [] flowState = "celebrating" -> "transitioning"
      [] flowState = "transitioning" -> "answering"

\* A step in which the page calls submitAnswer and the store records it.
Submits == quiz'.totalAnswered = quiz.totalAnswered + 1

\* C36: the page calls submitAnswer only in flow state 'answering' with a
\* current problem and a non-empty input; while an instance is mounted its
\* flow state changes only to the next of answering -> showing-solution ->
\* celebrating -> transitioning -> answering, to 'celebrating' by the
\* animation's onComplete and to 'transitioning' by the celebration timer;
\* and nextProblem is called exactly once between two consecutive
\* submissions of a quiz.
C36_PageFlow ==
    /\ [][Submits =>
            /\ page.route = "/quiz"
            /\ page.flowState = "answering"
            /\ Rendered(quiz)
            /\ page.userInput # <<>>
            /\ quiz.totalAnswered > 0 => page.nexts = 1]_vars
    /\ [][(/\ page.route = "/quiz"
            /\ page'.route = "/quiz"
            /\ page'.instance = page.instance
            /\ page'.flowState # page.flowState) =>
               /\ page'.flowState = FlowNext(page.flowState)
               /\ page'.flowState = "celebrating" => page.animation = "running"
               /\ page'.flowState = "transitioning" => page'.pending]_vars

\* C37: writtenDigits never holds more digits than the problem has columns,
\* also when animationSpeed, speechEnabled or isCorrect change while the same
\* problem is being animated.
C37_WrittenDigitsBounded ==
    mounted => Len(writtenDigits) <= memo.maxDigits

====
